---- MODULE Spec2Model ----
(***************************************************************************)
(* A model of the Utopia node agent (a1yamino/agent): the frpc process     *)
(* supervisor (internal/frp), the accelerator and workload caches          *)
(* (internal/gpu, internal/container), the HTTP handlers that use them     *)
(* (internal/api) and the orchestrator with its periodic tasks             *)
(* (internal/agent, cmd/node-agent).                                       *)
(*                                                                         *)
(* Every blocking or multi-step function is modelled step by step, one     *)
(* action per step, for a named caller (a goroutine).  Time is counted in  *)
(* steps of five seconds where the code waits with a timeout.              *)
(***************************************************************************)
EXTENDS Integers, Sequences, FiniteSets, TLC

(***************************************************************************)
(* Bounds of the model.                                                    *)
(***************************************************************************)
\* how many frpc processes may be launched in one behaviour
MaxProcs == 3
\* how many accelerators the NVML provider reports
NumGPUs == 2
\* how many containers docker creates in one behaviour
MaxContainers == 2
\* how many Register calls the platform receives from the host in one behaviour
MaxRegisterCalls == 3

(***************************************************************************)
(* Program constants.                                                      *)
(***************************************************************************)
\* frp.Manager.Stop: time.After(10 * time.Second)
StopTimeout == 10
\* agent.generateFRPConfig: apiPort := 9200
DefaultApiPort == 9200
\* agent.generateFRPConfig: WebLocalPort: 8000 + i*10
WebPortBase == 8000
\* agent.generateFRPConfig: the i*10 of both local ports
PortStride == 10
\* agent.Stop: time.After(15 * time.Second)
DrainTimeout == 15

VARIABLES
    \* ---- the operating system's view of the frpc processes
    procs,        \* pid -> "unborn" | "live" | "zombie" | "reaped"
    termed,       \* pids that were sent SIGTERM by Manager.Stop
    killed,       \* pids that were sent SIGKILL, by Manager.Stop or by exec.CommandContext
    cancelled,    \* the shared context (Agent.ctx) is cancelled
    \* ---- frp.Manager
    mcmd,         \* Manager.cmd: NoCmd (nil), NoProcess (cmd.Process == nil) or a pid
    mconfig,      \* Manager.config
    cfgFile,      \* content of Manager.configPath on disk
    cfgFrom,      \* history: the Config that content was rendered from
    \* ---- the callers of frp.Manager, one entry per goroutine
    supPc,        \* caller -> position inside Start / Stop
    supOp,        \* caller -> entry point it is in
    supRes,       \* caller -> result of its last call
    stopTarget,   \* caller -> the process Stop's wait goroutine waits for
    stopWaited,   \* caller -> seconds Stop has waited in its select
    doneCh,       \* caller -> content of Stop's done channel
    sigtermFailed, \* caller -> the Stop in progress could not deliver SIGTERM
    \* ---- gpu.Monitor and the callers of RefreshGPUInfo
    gpus,         \* Monitor.gpus
    gpuPc,        \* caller -> position inside RefreshGPUInfo
    gpuScratch,   \* caller -> the local slice gpus it has built
    gpuRes,       \* caller -> result of its last RefreshGPUInfo
    gpuOld,       \* history: caller -> Monitor.gpus when its refresh began
    gpuWrote,     \* history: caller -> its refresh has assigned Monitor.gpus
    gpuRead,      \* history: what the last snapshot read of the monitor returned
    \* ---- docker, container.Manager and the callers of the manager
    docker,       \* container id -> its state in the docker daemon
    containers,   \* Manager.containers: key -> ContainerInfo
    contPc,       \* caller -> position inside the manager
    contOp,       \* caller -> entry point it is in
    contRes,      \* caller -> result of its last call
    contTodo,     \* caller -> ids RefreshContainers has still to refresh
    contArg,      \* caller -> the containerID RefreshContainer was given
    contInfo,     \* caller -> the ContainerInfo RefreshContainer has built
    contOld,      \* history: caller -> keys of the cache when its refresh began
    contListed,   \* history: caller -> keys its docker ps reported
    contWrote,    \* history: caller -> its call has changed Manager.containers
    contRead,     \* history: what the last snapshot read of the manager returned
    contReq,      \* caller -> the CreateRequest CreateContainer was given
    \* ---- api.Server: the goroutine serving POST /api/v1/containers
    apiPc,        \* position of the handler createContainer
    apiResp,      \* status code of its last response
    commit,       \* history: the last docker run of CreateContainer
    \* ---- api.Server: the goroutine serving one request, and its client
    httpPc,       \* position of the request in the chain of gin handlers
    httpReq,      \* the request being served
    httpResp,     \* the last response written
    held,         \* the value a caller holds from ListContainers or GetGPUInfo
    heldShared,   \* keys of held whose slices and maps the cache entry still refers to
    \* ---- cmd/node-agent main and registration
    idFile,       \* the identity file
    idTmp,        \* the temporary file SaveNodeID writes next to it
    regResp,      \* the id the Register call of this process has returned
    registerCalls, \* history: the Register calls made on this host
    mainPc,       \* position of main
    mainCause,    \* what ended main's first select: "signal" or "error"
    errChan,      \* main's errChan: "empty" or "err"
    \* ---- agent.Agent and its goroutines
    nodeID,       \* Agent.nodeID
    inited,       \* which of gpuMonitor, containerManager, frpManager, apiServer are set
    startPc,      \* position of Agent.Start
    startRes,     \* result of Agent.Start
    steps,        \* history: the steps Agent.Start has entered, in order
    failedStep,   \* history: the step whose error Agent.Start returned
    taskPc,       \* goroutine -> position, for the listener and the three tasks
    tickPending,  \* task -> a tick waits in the buffer of its ticker.C
    apiShutdown,  \* http.Server.Shutdown was called on the listener
    apiBindFailed, \* history: ListenAndServe returned an error other than ErrServerClosed
    stopPc,       \* position of Agent.Stop
    stopRes,      \* result of Agent.Stop
    stopSteps,    \* history: the steps Agent.Stop has done, in order
    drainWaited,  \* seconds Agent.Stop has waited in its select
    drainWarned,  \* Agent.Stop has printed the timeout warning
    gpuClosed,    \* Monitor.Close was called
    stopErr       \* the errors the last step of Agent.Stop has printed

supVars == <<procs, termed, killed, cancelled, mcmd, mconfig, cfgFile, cfgFrom,
             supPc, supOp, supRes, stopTarget, stopWaited, doneCh,
             sigtermFailed>>

gpuVars == <<gpus, gpuPc, gpuScratch, gpuRes, gpuOld, gpuWrote, gpuRead>>

contVars == <<docker, containers, contPc, contOp, contRes, contTodo, contArg,
              contInfo, contOld, contListed, contWrote, contRead, contReq>>

httpVars == <<httpPc, httpReq, httpResp>>

heldVars == <<held, heldShared>>

apiVars == <<apiPc, apiResp, commit, httpVars, heldVars>>

agentVars == <<idFile, idTmp, regResp, registerCalls, mainPc, mainCause,
               errChan, nodeID, inited, startPc, startRes, steps, failedStep, taskPc, tickPending,
               apiShutdown, apiBindFailed, stopPc, stopRes,
               stopSteps, drainWaited, drainWarned, gpuClosed, stopErr>>

vars == <<supVars, gpuVars, contVars, apiVars, agentVars>>

\* what the actions of one component leave alone
exceptSup == <<gpuVars, contVars, apiVars, agentVars>>
exceptGpu == <<supVars, contVars, apiVars, agentVars>>
exceptCont == <<supVars, gpuVars, apiVars, agentVars>>

(***************************************************************************)
(* Values.                                                                 *)
(***************************************************************************)
Pids == 1 .. MaxProcs
\* Manager.cmd == nil
NoCmd == 0
\* Manager.cmd set, Manager.cmd.Process == nil
NoProcess == -1
SupCallers == {"client", "start", "frpTask", "stop"}
Results == {"none", "nil", "err"}

(***************************************************************************)
(* The node identity and the file that holds it.  A string is the sequence *)
(* of its characters.                                                      *)
(***************************************************************************)
DigitChars == <<"0", "1", "2", "3", "4", "5", "6", "7", "8", "9">>
Whitespace == {" ", "\t", "\n", "\r"}

RECURSIVE FormatNat(_)
FormatNat(n) ==
    IF n < 10 THEN <<DigitChars[n + 1]>>
    ELSE Append(FormatNat(n \div 10), DigitChars[(n % 10) + 1])

\* strconv.FormatInt(n, 10)
FormatInt(n) == IF n < 0 THEN <<"-">> \o FormatNat(-n) ELSE FormatNat(n)

RECURSIVE TrimLeft(_)
TrimLeft(s) == IF s # <<>> /\ Head(s) \in Whitespace THEN TrimLeft(Tail(s)) ELSE s

RECURSIVE TrimRight(_)
TrimRight(s) ==
    IF s # <<>> /\ s[Len(s)] \in Whitespace
    THEN TrimRight(SubSeq(s, 1, Len(s) - 1))
    ELSE s

\* strings.TrimSpace
TrimSpace(s) == TrimRight(TrimLeft(s))

\* a file of the identity directory: missing, or holding bytes
NoFile == [exists |-> FALSE, data |-> <<>>]
File(data) == [exists |-> TRUE, data |-> data]

\* LoadNodeID of a file that can be read: "" when the file does not exist,
\* the trimmed content otherwise
LoadNodeID(file) == IF file.exists THEN TrimSpace(file.data) ELSE <<>>

\* the empty string LoadNodeID returns when no identity is on file
NoIdentity == <<>>
\* the ids the platform's register call hands out
PlatformIds == {7, 12}
\* the identity of a node that was given the id 7
RegisteredID == FormatInt(7)

Prefixes(s) == {SubSeq(s, 1, k) : k \in 0 .. Len(s)}

(***************************************************************************)
(* agent.generateFRPConfig and frp.Manager.GenerateConfig.                 *)
(***************************************************************************)
\* A listen address is given as its parts between colons; a part is a
\* record telling whether strconv.Atoi accepts it and the number it yields.
Part(isNum, val) == [isNum |-> isNum, val |-> val]

\* getPortFromAddress followed by strconv.Atoi, defaulting to 9200
ApiPortOf(address) ==
    IF Len(address) = 2 /\ address[2].isNum
    THEN address[2].val
    ELSE DefaultApiPort

RECURSIVE GpuTunnels(_)
\* the loop of generateFRPConfig: tunnels for accelerators 0 .. n-1
GpuTunnels(n) ==
    IF n = 0 THEN <<>>
    ELSE Append(GpuTunnels(n - 1),
                [ID |-> n - 1,
                 WebLocalPort |-> WebPortBase + (n - 1) * PortStride,
                 SshLocalPort |-> WebPortBase + (n - 1) * PortStride + 1])

GenerateFRPConfig(frp, id, address, gpuCount) ==
    [ServerAddr |-> frp.ServerAddr,
     ServerPort |-> frp.ServerPort,
     FrpToken |-> frp.Token,
     NodeID |-> id,
     AgentApiPort |-> ApiPortOf(address),
     Gpus |-> GpuTunnels(gpuCount)]

\* the zero value of frp.Config
NoConfig ==
    [ServerAddr |-> "", ServerPort |-> 0, FrpToken |-> "", NodeID |-> <<>>,
     AgentApiPort |-> 0, Gpus |-> <<>>]

RECURSIVE DataSections(_, _)
\* the {{range .Gpus}} block of frpcTemplate: a web and an ssh section each
DataSections(id, tunnels) ==
    IF tunnels = <<>> THEN <<>>
    ELSE LET t == Head(tunnels) IN
         <<[name |-> <<"data", id, FormatInt(t.ID), "web">>,
            localPort |-> FormatInt(t.WebLocalPort),
            tunnelType |-> "container-data"],
           [name |-> <<"data", id, FormatInt(t.ID), "ssh">>,
            localPort |-> FormatInt(t.SshLocalPort),
            tunnelType |-> "container-data"]>>
         \o DataSections(id, Tail(tunnels))

\* a rendering that stamps the file with the process the manager holds
RenderConfigStamped(config) ==
    <<[name |-> <<"common">>,
       serverAddr |-> config.ServerAddr,
       serverPort |-> FormatInt(config.ServerPort),
       token |-> config.FrpToken,
       metaNodeID |-> config.NodeID,
       stamp |-> mcmd],
      [name |-> <<"control", config.NodeID>>,
       localPort |-> FormatInt(config.AgentApiPort),
       tunnelType |-> "agent-control"]>>
    \o DataSections(config.NodeID, config.Gpus)

\* frpcTemplate executed on a Config: the sections of the rendered file,
\* [common] first; numbers are printed in decimal
RenderConfig(config) ==
    <<[name |-> <<"common">>,
       serverAddr |-> config.ServerAddr,
       serverPort |-> FormatInt(config.ServerPort),
       token |-> config.FrpToken,
       metaNodeID |-> config.NodeID],
      [name |-> <<"control", config.NodeID>>,
       localPort |-> FormatInt(config.AgentApiPort),
       tunnelType |-> "agent-control"]>>
    \o DataSections(config.NodeID, config.Gpus)

\* the file at Manager.configPath: absent, cut short by a failed write, or
\* holding the sections of a rendered configuration
FileAbsent == [state |-> "absent", sections |-> <<>>]
FileTruncated == [state |-> "truncated", sections |-> <<>>]
FileWritten(sections) == [state |-> "written", sections |-> sections]

\* DefaultConfig: the FRP settings and the listen address "127.0.0.1:9200"
DefaultFRP ==
    [ServerAddr |-> "api.server.com", ServerPort |-> 7000,
     Token |-> "frp_connection_token"]
ListenAddress == <<Part(FALSE, 0), Part(TRUE, 9200)>>
\* the configurations the callers of the model hand to the manager
Configs ==
    {GenerateFRPConfig(DefaultFRP, RegisteredID, ListenAddress, n) : n \in {1, NumGPUs}}

(***************************************************************************)
(* frp.Manager                                                             *)
(***************************************************************************)
HasProcess == mcmd \in Pids

\* os.Process.Signal: fails once the process has been waited for; a zombie
\* still accepts signals
SignalOk(p) == procs[p] \in {"live", "zombie"}

\* Manager.IsRunning
IsRunning == HasProcess /\ SignalOk(mcmd)

\* Manager.GetPID
GetPID == IF HasProcess THEN mcmd ELSE 0

Unborn == {p \in Pids : procs[p] = "unborn"}
NextPid == CHOOSE p \in Unborn : \A q \in Unborn : p <= q

\* a call returns to its caller
SupReturn(c, res) ==
    /\ supPc' = [supPc EXCEPT ![c] = "idle"]
    /\ supRes' = [supRes EXCEPT ![c] = res]

\* the caller c enters the entry point op of the manager: Start begins with
\* GenerateConfig, Stop and Restart begin with the nil check of Stop
SupEnter(c, op) ==
    /\ supPc[c] = "idle"
    /\ supPc' = [supPc EXCEPT ![c] = IF op = "Start" THEN "start_gen" ELSE "stop_check"]
    /\ supOp' = [supOp EXCEPT ![c] = op]
    /\ supRes' = [supRes EXCEPT ![c] = "none"]

\* Manager.Start is entered
SupCallStart(c) ==
    /\ SupEnter(c, "Start")
    /\ UNCHANGED <<procs, termed, killed, cancelled, mcmd, mconfig, cfgFile, cfgFrom,
                   stopTarget, stopWaited, doneCh, sigtermFailed>>
    /\ UNCHANGED exceptSup

\* Manager.Start: GenerateConfig. os.Create may fail (the file is kept),
\* tmpl.Execute may fail (the file is truncated), or the file is written.
SupGenerateConfig(c) ==
    /\ supPc[c] = "start_gen"
    /\ \/ /\ SupReturn(c, "err")
          /\ cfgFile' \in {cfgFile, FileTruncated}
          /\ UNCHANGED cfgFrom
       \/ /\ cfgFile' = FileWritten(RenderConfig(mconfig))
          /\ cfgFrom' = mconfig
          /\ supPc' = [supPc EXCEPT ![c] = "start_look"]
          /\ UNCHANGED supRes
    /\ UNCHANGED <<procs, termed, killed, cancelled, mcmd, mconfig, supOp,
                   stopTarget, stopWaited, doneCh, sigtermFailed>>
    /\ UNCHANGED exceptSup

\* Manager.Start: exec.LookPath("frpc")
SupLookPath(c) ==
    /\ supPc[c] = "start_look"
    /\ \/ SupReturn(c, "err")
       \/ /\ supPc' = [supPc EXCEPT ![c] = "start_launch"]
          /\ UNCHANGED supRes
    /\ UNCHANGED <<procs, termed, killed, cancelled, mcmd, mconfig, cfgFile, cfgFrom,
                   supOp, stopTarget, stopWaited, doneCh, sigtermFailed>>
    /\ UNCHANGED exceptSup

\* a Start whose command is not bound to the context
SupLaunchWithoutContext(c) ==
    /\ supPc[c] = "start_launch"
    /\ \/ /\ mcmd' = NoProcess
          /\ SupReturn(c, "err")
          /\ UNCHANGED procs
       \/ /\ Unborn # {}
          /\ procs' = [procs EXCEPT ![NextPid] = "live"]
          /\ mcmd' = NextPid
          /\ supPc' = [supPc EXCEPT ![c] = "start_probe"]
          /\ UNCHANGED supRes
    /\ UNCHANGED <<termed, killed, cancelled, mconfig, cfgFile, cfgFrom, supOp,
                   stopTarget, stopWaited, doneCh, sigtermFailed>>
    /\ UNCHANGED exceptSup

\* Manager.Start: m.cmd = exec.CommandContext(ctx, ...); m.cmd.Start().
\* m.cmd is replaced before the launch; cmd.Start fails at once on a
\* cancelled context and may fail otherwise.
SupLaunch(c) ==
    /\ supPc[c] = "start_launch"
    /\ \/ /\ mcmd' = NoProcess
          /\ SupReturn(c, "err")
          /\ UNCHANGED procs
       \/ /\ ~cancelled
          /\ Unborn # {}
          /\ procs' = [procs EXCEPT ![NextPid] = "live"]
          /\ mcmd' = NextPid
          /\ supPc' = [supPc EXCEPT ![c] = "start_probe"]
          /\ UNCHANGED supRes
    /\ UNCHANGED <<termed, killed, cancelled, mconfig, cfgFile, cfgFrom, supOp,
                   stopTarget, stopWaited, doneCh, sigtermFailed>>
    /\ UNCHANGED exceptSup

\* Manager.Start: after time.Sleep(2s), the Signal(0) probe of m.cmd.Process
SupProbe(c) ==
    /\ supPc[c] = "start_probe"
    /\ SupReturn(c, IF HasProcess /\ ~SignalOk(mcmd) THEN "err" ELSE "nil")
    /\ UNCHANGED <<procs, termed, killed, cancelled, mcmd, mconfig, cfgFile, cfgFrom,
                   supOp, stopTarget, stopWaited, doneCh, sigtermFailed>>
    /\ UNCHANGED exceptSup

\* a Restart that returns the result of its Stop instead of going on
StopReturnsEndsRestart(c, res) ==
    /\ sigtermFailed' = [sigtermFailed EXCEPT ![c] = FALSE]
    /\ SupReturn(c, res)

\* Stop has returned res: Stop itself returns, Restart logs it and goes on
StopReturns(c, res) ==
    /\ sigtermFailed' = [sigtermFailed EXCEPT ![c] = FALSE]
    /\ IF supOp[c] = "Stop"
       THEN SupReturn(c, res)
       ELSE /\ supPc' = [supPc EXCEPT ![c] = "restart_sleep"]
            /\ UNCHANGED supRes

\* Manager.Stop is entered
SupCallStop(c) ==
    /\ SupEnter(c, "Stop")
    /\ UNCHANGED <<procs, termed, killed, cancelled, mcmd, mconfig, cfgFile, cfgFrom,
                   stopTarget, stopWaited, doneCh, sigtermFailed>>
    /\ UNCHANGED exceptSup

\* Manager.Stop: the nil check, SIGTERM, and the launch of the goroutine
\* that runs m.cmd.Wait()
SupStopSignal(c) ==
    /\ supPc[c] = "stop_check"
    /\ IF ~HasProcess
       THEN /\ StopReturns(c, "nil")
            /\ UNCHANGED <<termed, stopTarget, stopWaited, doneCh>>
       ELSE /\ termed' = IF SignalOk(mcmd) THEN termed \cup {mcmd} ELSE termed
            /\ sigtermFailed' = [sigtermFailed EXCEPT ![c] = ~SignalOk(mcmd)]
            /\ stopTarget' = [stopTarget EXCEPT ![c] = mcmd]
            /\ stopWaited' = [stopWaited EXCEPT ![c] = 0]
            /\ doneCh' = [doneCh EXCEPT ![c] = "empty"]
            /\ supPc' = [supPc EXCEPT ![c] = "stop_wait"]
            /\ UNCHANGED supRes
    /\ UNCHANGED <<procs, killed, cancelled, mcmd, mconfig, cfgFile, cfgFrom, supOp>>
    /\ UNCHANGED exceptSup

\* the goroutine's m.cmd.Wait() returns: it reaps the exited process, with
\* the exit status as its error, or fails because Wait was already called
SupWaitReturns(c) ==
    /\ supPc[c] \in {"stop_wait", "stop_killed"}
    /\ doneCh[c] = "empty"
    /\ \/ /\ procs[stopTarget[c]] = "zombie"
          /\ procs' = [procs EXCEPT ![stopTarget[c]] = "reaped"]
          /\ \E e \in {"nil", "err"} : doneCh' = [doneCh EXCEPT ![c] = e]
       \/ /\ procs[stopTarget[c]] = "reaped"
          /\ doneCh' = [doneCh EXCEPT ![c] = "err"]
          /\ UNCHANGED procs
    /\ UNCHANGED <<termed, killed, cancelled, mcmd, mconfig, cfgFile, cfgFrom,
                   supPc, supOp, supRes, stopTarget, stopWaited,
                   sigtermFailed>>
    /\ UNCHANGED exceptSup

\* Manager.Stop: five more seconds pass in the select
SupStopTick(c) ==
    /\ supPc[c] = "stop_wait"
    /\ stopWaited[c] < StopTimeout
    /\ stopWaited' = [stopWaited EXCEPT ![c] = @ + 5]
    /\ UNCHANGED <<procs, termed, killed, cancelled, mcmd, mconfig, cfgFile, cfgFrom,
                   supPc, supOp, supRes, stopTarget, doneCh, sigtermFailed>>
    /\ UNCHANGED exceptSup

\* Manager.Stop: case err := <-done
SupStopDone(c) ==
    /\ supPc[c] = "stop_wait"
    /\ doneCh[c] # "empty"
    /\ StopReturns(c, doneCh[c])
    /\ UNCHANGED <<procs, termed, killed, cancelled, mcmd, mconfig, cfgFile, cfgFrom,
                   supOp, stopTarget, stopWaited, doneCh>>
    /\ UNCHANGED exceptSup

\* Manager.Stop: case <-time.After(10s): Process.Kill, which fails on a
\* process that was already waited for
SupStopTimeout(c) ==
    /\ supPc[c] = "stop_wait"
    /\ stopWaited[c] >= StopTimeout
    /\ IF HasProcess /\ SignalOk(mcmd)
       THEN /\ killed' = killed \cup {mcmd}
            /\ procs' = [procs EXCEPT ![mcmd] = "zombie"]
            /\ supPc' = [supPc EXCEPT ![c] = "stop_killed"]
            /\ UNCHANGED <<supRes, sigtermFailed>>
       ELSE /\ StopReturns(c, "err")
            /\ UNCHANGED <<killed, procs>>
    /\ UNCHANGED <<termed, cancelled, mcmd, mconfig, cfgFile, cfgFrom, supOp,
                   stopTarget, stopWaited, doneCh>>
    /\ UNCHANGED exceptSup

\* a Stop that returns nil right after Process.Kill, without reading done
SupStopKilledNoWait(c) ==
    /\ supPc[c] = "stop_killed"
    /\ StopReturns(c, "nil")
    /\ UNCHANGED <<procs, termed, killed, cancelled, mcmd, mconfig, cfgFile, cfgFrom,
                   supOp, stopTarget, stopWaited, doneCh>>
    /\ UNCHANGED exceptSup

\* Manager.Stop: <-done after the kill, then return nil
SupStopKilled(c) ==
    /\ supPc[c] = "stop_killed"
    /\ doneCh[c] # "empty"
    /\ StopReturns(c, "nil")
    /\ UNCHANGED <<procs, termed, killed, cancelled, mcmd, mconfig, cfgFile, cfgFrom,
                   supOp, stopTarget, stopWaited, doneCh>>
    /\ UNCHANGED exceptSup

\* Manager.Restart is entered: it runs Stop first
SupCallRestart(c) ==
    /\ SupEnter(c, "Restart")
    /\ UNCHANGED <<procs, termed, killed, cancelled, mcmd, mconfig, cfgFile, cfgFrom,
                   stopTarget, stopWaited, doneCh, sigtermFailed>>
    /\ UNCHANGED exceptSup

\* Manager.Restart: time.Sleep(1s), then m.Start(ctx)
SupRestartSleep(c) ==
    /\ supPc[c] = "restart_sleep"
    /\ supPc' = [supPc EXCEPT ![c] = "start_gen"]
    /\ UNCHANGED <<procs, termed, killed, cancelled, mcmd, mconfig, cfgFile, cfgFrom,
                   supOp, supRes, stopTarget, stopWaited, doneCh, sigtermFailed>>
    /\ UNCHANGED exceptSup

\* an UpdateConfig that stores the configuration and runs Start at once
SupCallUpdateConfigLive(c, config) ==
    /\ mconfig' = config
    /\ supPc[c] = "idle"
    /\ supPc' = [supPc EXCEPT ![c] = "start_gen"]
    /\ supOp' = [supOp EXCEPT ![c] = "UpdateConfig"]
    /\ supRes' = [supRes EXCEPT ![c] = "none"]
    /\ UNCHANGED <<procs, termed, killed, cancelled, mcmd, cfgFile, cfgFrom,
                   stopTarget, stopWaited, doneCh, sigtermFailed>>
    /\ UNCHANGED exceptSup

\* Manager.UpdateConfig: m.config = config, then m.Restart(ctx)
SupCallUpdateConfig(c, config) ==
    /\ mconfig' = config
    /\ SupEnter(c, "UpdateConfig")
    /\ UNCHANGED <<procs, termed, killed, cancelled, mcmd, cfgFile, cfgFrom,
                   stopTarget, stopWaited, doneCh, sigtermFailed>>
    /\ UNCHANGED exceptSup

\* Manager.CleanupConfig: os.Remove(m.configPath)
SupCleanupConfig(c) ==
    /\ supPc[c] = "idle"
    /\ cfgFile' = FileAbsent
    /\ UNCHANGED <<procs, termed, killed, cancelled, mcmd, mconfig, cfgFrom,
                   supPc, supOp, supRes, stopTarget, stopWaited, doneCh,
                   sigtermFailed>>
    /\ UNCHANGED exceptSup

(***************************************************************************)
(* The environment of the supervisor.                                      *)
(***************************************************************************)
\* an frpc process exits: on its own, on SIGTERM, or killed by
\* exec.CommandContext once the context is cancelled
ProcExit(p) ==
    /\ procs[p] = "live"
    /\ procs' = [procs EXCEPT ![p] = "zombie"]
    /\ UNCHANGED <<termed, killed, cancelled, mcmd, mconfig, cfgFile, cfgFrom,
                   supPc, supOp, supRes, stopTarget, stopWaited, doneCh, sigtermFailed>>
    /\ UNCHANGED exceptSup

\* context.CancelFunc of the context handed to Start
CtxCancel ==
    /\ ~cancelled
    /\ cancelled' = TRUE
    /\ UNCHANGED <<procs, termed, killed, mcmd, mconfig, cfgFile, cfgFrom,
                   supPc, supOp, supRes, stopTarget, stopWaited, doneCh, sigtermFailed>>
    /\ UNCHANGED exceptSup

\* exec.CommandContext: the goroutine cmd.Start launched sees the context
\* done and calls Process.Kill on the process that still runs
CtxKill(p) ==
    /\ cancelled
    /\ procs[p] = "live"
    /\ killed' = killed \cup {p}
    /\ procs' = [procs EXCEPT ![p] = "zombie"]
    /\ UNCHANGED <<termed, cancelled, mcmd, mconfig, cfgFile, cfgFrom,
                   supPc, supOp, supRes, stopTarget, stopWaited, doneCh, sigtermFailed>>
    /\ UNCHANGED exceptSup

(***************************************************************************)
(* gpu.Monitor                                                             *)
(***************************************************************************)
GpuCallers == {"start", "gpuTask", "metrics"}
GpuIndices == 0 .. NumGPUs - 1

\* What NVML reports for one device, after the conversion to MB: total and
\* used memory and the utilisation in percent.  A failed GetMemoryInfo gives
\* total = used = 0 and a failed GetUtilizationRates gives util = 0.  Name,
\* UUID and temperature are copied into GPUInfo unread and are left out.
Reading(total, used, util) == [total |-> total, used |-> used, util |-> util]
IdleReading == Reading(100, 5, 0)
MemBusyReading == Reading(100, 50, 0)
UtilBusyReading == Reading(100, 5, 50)
Readings == {IdleReading, MemBusyReading, UtilBusyReading}

\* RefreshGPUInfo: busy := false; if totalMB > 0 { busy = memUsagePercent >
\* 10.0 || usagePercent > 10.0 } with memUsagePercent = used / total * 100
IsBusy(r) == r.total > 0 /\ (r.used * 100 > 10 * r.total \/ r.util > 10)

\* RefreshGPUInfo: gpus[i] = GPUInfo{ID: i, ...}
MakeGPUInfo(i, r) ==
    [ID |-> i,
     MemoryTotalMB |-> r.total,
     MemoryUsedMB |-> r.used,
     UsagePercent |-> r.util,
     Busy |-> IsBusy(r)]

\* Monitor.GetGPUInfo: a copy of m.gpus
GetGPUInfo(snapshot) == snapshot

RECURSIVE GetEveryGPU(_)
\* A loop that appends gpu.ID whether the entry is busy or not.
GetEveryGPU(snapshot) ==
    IF snapshot = <<>> THEN <<>>
    ELSE <<Head(snapshot).ID>> \o GetEveryGPU(Tail(snapshot))

RECURSIVE GetAvailableGPUs(_)
\* Monitor.GetAvailableGPUs: the loop over m.gpus appending gpu.ID of every
\* entry that is not busy
GetAvailableGPUs(snapshot) ==
    IF snapshot = <<>> THEN <<>>
    ELSE LET rest == GetAvailableGPUs(Tail(snapshot)) IN
         IF ~Head(snapshot).Busy THEN <<Head(snapshot).ID>> \o rest ELSE rest

\* Monitor.IsGPUAvailable
IsGPUAvailable(snapshot, id) ==
    id >= 0 /\ id < Len(snapshot) /\ ~snapshot[id + 1].Busy

GpuReturn(t, res) ==
    /\ gpuPc' = [gpuPc EXCEPT ![t] = "idle"]
    /\ gpuRes' = [gpuRes EXCEPT ![t] = res]
    /\ gpuScratch' = [gpuScratch EXCEPT ![t] = <<>>]
    /\ gpuOld' = [gpuOld EXCEPT ![t] = <<>>]

\* the caller t enters Monitor.RefreshGPUInfo
GpuEnterRefresh(t) ==
    /\ gpuPc[t] = "idle"
    /\ gpuPc' = [gpuPc EXCEPT ![t] = "build"]
    /\ gpuRes' = [gpuRes EXCEPT ![t] = "none"]
    /\ gpuOld' = [gpuOld EXCEPT ![t] = gpus]
    /\ gpuWrote' = [gpuWrote EXCEPT ![t] = FALSE]
    /\ UNCHANGED <<gpus, gpuScratch, gpuRead>>

\* Monitor.RefreshGPUInfo is entered
GpuCallRefresh(t) ==
    /\ GpuEnterRefresh(t)
    /\ UNCHANGED exceptGpu

\* A refresh that empties m.gpus before it reports the failure of the driver.
GpuBuildClearing(t, readings) ==
    /\ gpuPc[t] = "build"
    /\ \/ /\ GpuReturn(t, "err")
          /\ gpus' = <<>>
          /\ gpuWrote' = [gpuWrote EXCEPT ![t] = TRUE]
          /\ UNCHANGED gpuRead
       \/ /\ \E rs \in [1 .. NumGPUs -> readings] :
                gpuScratch' = [gpuScratch EXCEPT ![t] =
                                  [i \in 1 .. NumGPUs |-> MakeGPUInfo(i - 1, rs[i])]]
          /\ gpuPc' = [gpuPc EXCEPT ![t] = "swap"]
          /\ UNCHANGED <<gpus, gpuRes, gpuOld, gpuWrote, gpuRead>>
    /\ UNCHANGED exceptGpu

\* Monitor.RefreshGPUInfo: GetGPUCount and the loop that fills the local
\* slice, outside the lock.  GetGPUCount or DeviceGetHandleByIndex may fail,
\* and then the function returns the error.
GpuBuild(t, readings) ==
    /\ gpuPc[t] = "build"
    /\ \/ /\ GpuReturn(t, "err")
          /\ UNCHANGED <<gpus, gpuWrote, gpuRead>>
       \/ /\ \E rs \in [1 .. NumGPUs -> readings] :
                gpuScratch' = [gpuScratch EXCEPT ![t] =
                                  [i \in 1 .. NumGPUs |-> MakeGPUInfo(i - 1, rs[i])]]
          /\ gpuPc' = [gpuPc EXCEPT ![t] = "swap"]
          /\ UNCHANGED <<gpus, gpuRes, gpuOld, gpuWrote, gpuRead>>
    /\ UNCHANGED exceptGpu

\* Monitor.RefreshGPUInfo: m.mu.Lock(); m.gpus = gpus; m.mu.Unlock()
GpuSwap(t) ==
    /\ gpuPc[t] = "swap"
    /\ gpus' = gpuScratch[t]
    /\ gpuWrote' = [gpuWrote EXCEPT ![t] = TRUE]
    /\ GpuReturn(t, "nil")
    /\ UNCHANGED gpuRead
    /\ UNCHANGED exceptGpu

\* The complete snapshots a read may return while refreshes are under way:
\* the cache as it was when a running refresh began and, once that refresh
\* has built its slice, the slice it is about to store.
GpuGenerations ==
    IF \A t \in GpuCallers : gpuPc[t] = "idle"
    THEN {gpus}
    ELSE {gpuOld[t] : t \in {u \in GpuCallers : gpuPc[u] # "idle"}}
         \cup {gpuScratch[t] : t \in {u \in GpuCallers : gpuPc[u] = "swap"}}

\* a handler calls Monitor.GetGPUInfo (under m.mu.RLock)
GpuReadInfo ==
    /\ gpuRead' = [op |-> "GetGPUInfo", out |-> GetGPUInfo(gpus), snap |-> gpus,
                   allowed |-> {GetGPUInfo(g) : g \in GpuGenerations}]
    /\ UNCHANGED <<gpus, gpuPc, gpuScratch, gpuRes, gpuOld, gpuWrote>>
    /\ UNCHANGED exceptGpu

\* a handler calls Monitor.GetAvailableGPUs (under m.mu.RLock)
GpuReadAvailable ==
    /\ gpuRead' = [op |-> "GetAvailableGPUs", out |-> GetAvailableGPUs(gpus),
                   snap |-> gpus,
                   allowed |-> {GetAvailableGPUs(g) : g \in GpuGenerations}]
    /\ UNCHANGED <<gpus, gpuPc, gpuScratch, gpuRes, gpuOld, gpuWrote>>
    /\ UNCHANGED exceptGpu

\* the monitor right after NewMonitor, with no call in progress
GpuIdle ==
    /\ gpus = <<>>
    /\ gpuPc = [t \in GpuCallers |-> "idle"]
    /\ gpuScratch = [t \in GpuCallers |-> <<>>]
    /\ gpuRes = [t \in GpuCallers |-> "none"]
    /\ gpuOld = [t \in GpuCallers |-> <<>>]
    /\ gpuWrote = [t \in GpuCallers |-> FALSE]
    /\ gpuRead = [op |-> "none", out |-> <<>>, snap |-> <<>>, allowed |-> {<<>>}]

(***************************************************************************)
(* docker and container.Manager                                            *)
(***************************************************************************)
ContCallers == {"start", "contTask", "create", "remove"}
Cids == 1 .. MaxContainers

\* docker names a container by its full id (docker run -d, docker inspect's
\* Id) or by the short form of it (docker ps --format {{.ID}}); both forms
\* are accepted wherever an id is given
FullId(i) == <<"full", i>>
ShortId(i) == <<"short", i>>
Keys == {FullId(i) : i \in Cids} \cup {ShortId(i) : i \in Cids}
NoKey == <<"none", 0>>
\* the container an id names
CidOf(key) == key[2]

\* a container of the daemon; the utopia.gpu_ids label holds the ids
\* strconv.Itoa wrote, which strconv.Atoi reads back unchanged
DockerAbsent == [status |-> "absent", gpuIDs |-> <<>>]
Exists(i) == docker[i].status \in {"running", "exited"}

\* callers that hand Agent.ctx to the manager; exec.CommandContext fails at
\* once on a cancelled context.  The HTTP handlers use context.Background().
UsesAgentCtx(t) == t \in {"contTask", "start"}
CommandCancelled(t) == UsesAgentCtx(t) /\ cancelled

RECURSIVE NewestFirst(_)
\* the ids docker ps prints, the newest container first
NewestFirst(ids) ==
    IF ids = {} THEN <<>>
    ELSE LET top == CHOOSE i \in ids : \A j \in ids : j <= i IN
         <<top>> \o NewestFirst(ids \ {top})

EmptyMap == [k \in {} |-> DockerAbsent]
Put(map, key, val) ==
    [k \in DOMAIN map \cup {key} |-> IF k = key THEN val ELSE map[k]]
Delete(map, key) == [k \in DOMAIN map \ {key} |-> map[k]]

NoInfo == [ID |-> NoKey, Status |-> "none", GPUIDs |-> <<>>]

\* a CreateRequest: GPUIDs as bound from the JSON body and the GPUCount the
\* handler createContainer reads from it; the other fields only shape the
\* docker command line
NoReq == [GPUIDs |-> <<>>, GPUCount |-> 0]

\* RefreshContainer: the ContainerInfo built from docker inspect's output
InspectInfo(i) ==
    [ID |-> FullId(i), Status |-> docker[i].status, GPUIDs |-> docker[i].gpuIDs]

\* Manager.ListContainers: the values of the map
ListContainers(map) == {map[k] : k \in DOMAIN map}

\* Manager.GetContainer
GetContainer(map, key) ==
    IF key \in DOMAIN map THEN [info |-> map[key], exists |-> TRUE]
    ELSE [info |-> NoInfo, exists |-> FALSE]

\* a call of the manager returns to its caller
ContReturn(t, res) ==
    /\ contPc' = [contPc EXCEPT ![t] = "idle"]
    /\ contRes' = [contRes EXCEPT ![t] = res]
    /\ contOld' = [contOld EXCEPT ![t] = {}]
    /\ contListed' = [contListed EXCEPT ![t] = {}]
    /\ contArg' = [contArg EXCEPT ![t] = NoKey]

\* RefreshContainer has returned res inside the function that called it:
\* RefreshContainers logs an error and goes on with the next id,
\* CreateContainer and RefreshContainer itself return it
RefreshContainerReturns(t, res) ==
    IF contOp[t] = "RefreshContainers"
    THEN /\ contPc' = [contPc EXCEPT ![t] = "loop"]
         /\ UNCHANGED <<contRes, contOld, contListed, contArg>>
    ELSE ContReturn(t, res)

\* the caller t enters Manager.RefreshContainers
ContEnterRefreshContainers(t) ==
    /\ contPc[t] = "idle"
    /\ contPc' = [contPc EXCEPT ![t] = "list"]
    /\ contOp' = [contOp EXCEPT ![t] = "RefreshContainers"]
    /\ contRes' = [contRes EXCEPT ![t] = "none"]
    /\ contOld' = [contOld EXCEPT ![t] = DOMAIN containers]
    /\ contWrote' = [contWrote EXCEPT ![t] = FALSE]
    /\ UNCHANGED <<docker, containers, contTodo, contArg, contInfo, contListed,
                   contRead, contReq>>

\* Manager.RefreshContainers is entered
ContCallRefreshContainers(t) ==
    /\ ContEnterRefreshContainers(t)
    /\ UNCHANGED exceptCont

\* Manager.RefreshContainers: docker ps -a --filter label=utopia.managed=true.
\* It fails when the daemon cannot be reached or the context is cancelled.
ContList(t) ==
    /\ contPc[t] = "list"
    /\ \/ /\ ContReturn(t, "err")
          /\ UNCHANGED <<contTodo>>
       \/ /\ ~CommandCancelled(t)
          /\ contTodo' = [contTodo EXCEPT ![t] = NewestFirst({i \in Cids : Exists(i)})]
          /\ contListed' = [contListed EXCEPT ![t] = {ShortId(i) : i \in {j \in Cids : Exists(j)}}]
          /\ contPc' = [contPc EXCEPT ![t] = "clear"]
          /\ UNCHANGED <<contRes, contOld, contArg>>
    /\ UNCHANGED <<docker, containers, contOp, contInfo, contWrote, contRead, contReq>>
    /\ UNCHANGED exceptCont

\* Manager.RefreshContainers: m.mu.Lock(); m.containers = make(map); Unlock()
ContClear(t) ==
    /\ contPc[t] = "clear"
    /\ containers' = EmptyMap
    /\ contWrote' = [contWrote EXCEPT ![t] = TRUE]
    /\ contPc' = [contPc EXCEPT ![t] = "loop"]
    /\ UNCHANGED <<docker, contOp, contRes, contTodo, contArg, contInfo, contOld,
                   contListed, contRead, contReq>>
    /\ UNCHANGED exceptCont

\* Manager.RefreshContainers: the loop over containerIDs, and return nil
ContLoop(t) ==
    /\ contPc[t] = "loop"
    /\ IF contTodo[t] = <<>>
       THEN /\ ContReturn(t, "nil")
            /\ UNCHANGED <<contTodo>>
       ELSE /\ contArg' = [contArg EXCEPT ![t] = ShortId(Head(contTodo[t]))]
            /\ contTodo' = [contTodo EXCEPT ![t] = Tail(contTodo[t])]
            /\ contPc' = [contPc EXCEPT ![t] = "inspect"]
            /\ UNCHANGED <<contRes, contOld, contListed>>
    /\ UNCHANGED <<docker, containers, contOp, contInfo, contWrote, contRead, contReq>>
    /\ UNCHANGED exceptCont

\* Manager.RefreshContainer is entered for the id key
ContCallRefreshContainer(t, key) ==
    /\ contPc[t] = "idle"
    /\ contPc' = [contPc EXCEPT ![t] = "inspect"]
    /\ contOp' = [contOp EXCEPT ![t] = "RefreshContainer"]
    /\ contRes' = [contRes EXCEPT ![t] = "none"]
    /\ contArg' = [contArg EXCEPT ![t] = key]
    /\ contWrote' = [contWrote EXCEPT ![t] = FALSE]
    /\ UNCHANGED <<docker, containers, contTodo, contInfo, contOld, contListed,
                   contRead, contReq>>
    /\ UNCHANGED exceptCont

\* Manager.RefreshContainer: docker inspect and the ContainerInfo built from
\* it, outside the lock.  It fails when the container is gone, the daemon
\* cannot be reached or the context is cancelled.
ContInspect(t) ==
    /\ contPc[t] = "inspect"
    /\ \/ /\ RefreshContainerReturns(t, "err")
          /\ UNCHANGED contInfo
       \/ /\ ~CommandCancelled(t)
          /\ Exists(CidOf(contArg[t]))
          /\ contInfo' = [contInfo EXCEPT ![t] = InspectInfo(CidOf(contArg[t]))]
          /\ contPc' = [contPc EXCEPT ![t] = "insert"]
          /\ UNCHANGED <<contRes, contOld, contListed, contArg>>
    /\ UNCHANGED <<docker, containers, contOp, contTodo, contWrote, contRead, contReq>>
    /\ UNCHANGED exceptCont

\* a RefreshContainer that stores its entry in a fresh map
ContInsertAlone(t) ==
    /\ contPc[t] = "insert"
    /\ containers' = Put(EmptyMap, contArg[t], contInfo[t])
    /\ contWrote' = [contWrote EXCEPT ![t] = TRUE]
    /\ contInfo' = [contInfo EXCEPT ![t] = NoInfo]
    /\ RefreshContainerReturns(t, "nil")
    /\ UNCHANGED <<docker, contOp, contTodo, contRead, contReq>>
    /\ UNCHANGED exceptCont

\* Manager.RefreshContainer: m.mu.Lock(); m.containers[containerID] = info
ContInsert(t) ==
    /\ contPc[t] = "insert"
    /\ containers' = Put(containers, contArg[t], contInfo[t])
    /\ contWrote' = [contWrote EXCEPT ![t] = TRUE]
    /\ contInfo' = [contInfo EXCEPT ![t] = NoInfo]
    /\ RefreshContainerReturns(t, "nil")
    /\ UNCHANGED <<docker, contOp, contTodo, contRead, contReq>>
    /\ UNCHANGED exceptCont

\* The complete key sets a read may return while full refreshes are under
\* way: the keys of the cache when a running refresh began and, once its
\* docker ps has answered, the keys of the containers it reported.
FullRefreshers == {t \in ContCallers : contOp[t] = "RefreshContainers" /\ contPc[t] # "idle"}
ContGenerations ==
    IF FullRefreshers = {}
    THEN {DOMAIN containers}
    ELSE {contOld[t] : t \in FullRefreshers}
         \cup {contListed[t] : t \in {u \in FullRefreshers : contPc[u] # "list"}}

\* a handler calls Manager.ListContainers (under m.mu.RLock)
ContReadList ==
    /\ contRead' = [op |-> "ListContainers",
                    keys |-> {CidOf(info.ID) : info \in ListContainers(containers)},
                    allowed |-> {{CidOf(k) : k \in g} : g \in ContGenerations}]
    /\ UNCHANGED <<docker, containers, contPc, contOp, contRes, contTodo, contArg,
                   contInfo, contOld, contListed, contWrote, contReq>>
    /\ UNCHANGED exceptCont

\* a handler calls Manager.GetContainer (under m.mu.RLock) for the id key
ContReadGet(key) ==
    /\ contRead' = [op |-> "GetContainer",
                    keys |-> IF GetContainer(containers, key).exists
                             THEN {CidOf(GetContainer(containers, key).info.ID)} ELSE {},
                    allowed |-> {{CidOf(k) : k \in g \cap {key}} : g \in ContGenerations}]
    /\ UNCHANGED <<docker, containers, contPc, contOp, contRes, contTodo, contArg,
                   contInfo, contOld, contListed, contWrote, contReq>>
    /\ UNCHANGED exceptCont

\* Manager.RemoveContainer is entered for the id key
ContCallRemoveContainer(t, key) ==
    /\ contPc[t] = "idle"
    /\ contPc' = [contPc EXCEPT ![t] = "stop"]
    /\ contOp' = [contOp EXCEPT ![t] = "RemoveContainer"]
    /\ contRes' = [contRes EXCEPT ![t] = "none"]
    /\ contArg' = [contArg EXCEPT ![t] = key]
    /\ contWrote' = [contWrote EXCEPT ![t] = FALSE]
    /\ UNCHANGED <<docker, containers, contTodo, contInfo, contOld, contListed,
                   contRead, contReq>>
    /\ UNCHANGED exceptCont

\* Manager.RemoveContainer: docker stop -t 30; a failure is printed and the
\* removal goes on
ContDockerStop(t) ==
    /\ contPc[t] = "stop"
    /\ \/ UNCHANGED docker
       \/ /\ docker[CidOf(contArg[t])].status = "running"
          /\ docker' = [docker EXCEPT ![CidOf(contArg[t])].status = "exited"]
    /\ contPc' = [contPc EXCEPT ![t] = "rm"]
    /\ UNCHANGED <<containers, contOp, contRes, contTodo, contArg, contInfo, contOld,
                   contListed, contWrote, contRead, contReq>>
    /\ UNCHANGED exceptCont

\* Manager.RemoveContainer: docker rm -f -v.  It fails when the daemon does
\* not answer or knows no such container, and the error is returned.
ContDockerRm(t) ==
    /\ contPc[t] = "rm"
    /\ \/ /\ ContReturn(t, "err")
          /\ UNCHANGED docker
       \/ /\ Exists(CidOf(contArg[t]))
          /\ docker' = [docker EXCEPT ![CidOf(contArg[t])].status = "removed"]
          /\ contPc' = [contPc EXCEPT ![t] = "delete"]
          /\ UNCHANGED <<contRes, contOld, contListed, contArg>>
    /\ UNCHANGED <<containers, contOp, contTodo, contInfo, contWrote, contRead, contReq>>
    /\ UNCHANGED exceptCont

\* Manager.RemoveContainer: m.mu.Lock(); delete(m.containers, containerID)
ContDelete(t) ==
    /\ contPc[t] = "delete"
    /\ containers' = Delete(containers, contArg[t])
    /\ contWrote' = [contWrote EXCEPT ![t] = TRUE]
    /\ ContReturn(t, "nil")
    /\ UNCHANGED <<docker, contOp, contTodo, contInfo, contRead, contReq>>
    /\ UNCHANGED exceptCont

(***************************************************************************)
(* The docker daemon, as others than the manager change it.                *)
(***************************************************************************)
NeverCreated == {i \in Cids : docker[i].status = "absent"}

\* a managed container is started with the utopia labels
DockerRun(gpuIDs) ==
    /\ NeverCreated # {}
    /\ LET new == CHOOSE i \in NeverCreated : \A j \in NeverCreated : i <= j IN
       docker' = [docker EXCEPT ![new] = [status |-> "running", gpuIDs |-> gpuIDs]]

EnvDockerRun ==
    /\ DockerRun(<<>>)
    /\ UNCHANGED <<containers, contPc, contOp, contRes, contTodo, contArg,
                   contInfo, contOld, contListed, contWrote, contRead, contReq>>
    /\ UNCHANGED exceptCont

\* the main process of a container exits
EnvDockerExit(i) ==
    /\ docker[i].status = "running"
    /\ docker' = [docker EXCEPT ![i].status = "exited"]
    /\ UNCHANGED <<containers, contPc, contOp, contRes, contTodo, contArg,
                   contInfo, contOld, contListed, contWrote, contRead, contReq>>
    /\ UNCHANGED exceptCont

\* a container is removed with the docker command line
EnvDockerRemove(i) ==
    /\ Exists(i)
    /\ docker' = [docker EXCEPT ![i].status = "removed"]
    /\ UNCHANGED <<containers, contPc, contOp, contRes, contTodo, contArg,
                   contInfo, contOld, contListed, contWrote, contRead, contReq>>
    /\ UNCHANGED exceptCont

(***************************************************************************)
(* Manager.CreateContainer and the handler of POST /api/v1/containers      *)
(***************************************************************************)
RECURSIVE Ascending(_)
\* the elements of a set of indices as a JSON array, smallest first
Ascending(ids) ==
    IF ids = {} THEN <<>>
    ELSE LET low == CHOOSE i \in ids : \A j \in ids : i <= j IN
         <<low>> \o Ascending(ids \ {low})

\* the request bodies ShouldBindJSON accepts
Requests ==
    {[GPUIDs |-> Ascending(ids), GPUCount |-> n] :
        ids \in SUBSET GpuIndices, n \in -1 .. NumGPUs}

\* the indices the snapshot marks busy
BusyGPUs(snapshot) == {i \in GpuIndices : i < Len(snapshot) /\ snapshot[i + 1].Busy}

NoCommit == [done |-> FALSE, gpuIDs |-> <<>>, busy |-> {}]

\* Manager.CreateContainer is entered with the request req
ContCallCreateContainer(t, req) ==
    /\ contPc[t] = "idle"
    /\ contPc' = [contPc EXCEPT ![t] = "run"]
    /\ contOp' = [contOp EXCEPT ![t] = "CreateContainer"]
    /\ contRes' = [contRes EXCEPT ![t] = "none"]
    /\ contReq' = [contReq EXCEPT ![t] = req]
    /\ contWrote' = [contWrote EXCEPT ![t] = FALSE]
    /\ UNCHANGED <<docker, containers, contTodo, contArg, contInfo, contOld,
                   contListed, contRead>>

\* Manager.CreateContainer: docker run -d --gpus device=<req.GPUIDs> ...; the
\* command fails, or it starts the container and prints its full id
ContRun(t) ==
    /\ contPc[t] = "run"
    /\ \/ /\ ContReturn(t, "err")
          /\ UNCHANGED <<docker, commit>>
       \/ /\ ~CommandCancelled(t)
          /\ DockerRun(contReq[t].GPUIDs)
          /\ contArg' = [contArg EXCEPT ![t] =
                FullId(CHOOSE i \in NeverCreated : \A j \in NeverCreated : i <= j)]
          /\ contPc' = [contPc EXCEPT ![t] = "inspect"]
          /\ commit' = [done |-> TRUE, gpuIDs |-> contReq[t].GPUIDs,
                        busy |-> BusyGPUs(gpus)]
          /\ UNCHANGED <<contRes, contOld, contListed>>
    /\ UNCHANGED <<containers, contOp, contTodo, contInfo, contWrote, contRead, contReq>>
    /\ UNCHANGED <<supVars, gpuVars, apiPc, apiResp, httpVars, heldVars, agentVars>>

\* Server.createContainer up to the call of CreateContainer: the body is
\* bound, GPUCount is compared with 0 and with len(GetAvailableGPUs())
CreateContainerBegins(req) ==
    /\ apiPc = "idle"
    /\ IF req.GPUCount < 0
       THEN /\ apiResp' = 400
            /\ UNCHANGED <<apiPc, contVars>>
       ELSE IF req.GPUCount > Len(GetAvailableGPUs(gpus))
       THEN /\ apiResp' = 409
            /\ UNCHANGED <<apiPc, contVars>>
       ELSE /\ ContCallCreateContainer("create", req)
            /\ apiPc' = "create"
            /\ apiResp' = 0
    /\ UNCHANGED <<supVars, gpuVars, commit, agentVars>>

\* the handler createContainer is entered
ApiCreateContainer(req) ==
    /\ CreateContainerBegins(req)
    /\ UNCHANGED <<httpVars, heldVars>>

\* Server.createContainer after CreateContainer has returned
CreateContainerResponds ==
    /\ apiPc = "create"
    /\ contPc["create"] = "idle"
    /\ apiResp' = IF contRes["create"] = "nil" THEN 201 ELSE 500
    /\ apiPc' = "idle"
    /\ contReq' = [contReq EXCEPT !["create"] = NoReq]
    /\ UNCHANGED <<docker, containers, contPc, contOp, contRes, contTodo, contArg,
                   contInfo, contOld, contListed, contWrote, contRead>>
    /\ UNCHANGED <<supVars, gpuVars, commit, agentVars>>

\* the handler createContainer writes its response
ApiCreateRespond ==
    /\ CreateContainerResponds
    /\ UNCHANGED <<httpVars, heldVars>>

\* no request, no response yet
NoRequest == [route |-> "none", options |-> FALSE, header |-> <<>>]
\* probe and stale are history, kept for the responses of healthCheck: how
\* its GetGPUCount ended, and whether the last periodic refresh had failed
NoResponse == [route |-> "none", code |-> 0, probe |-> "none", stale |-> FALSE]
Answer(route, code) == [route |-> route, code |-> code, probe |-> "none", stale |-> FALSE]
\* a caller that holds nothing
NoHeld == [op |-> "none", value |-> <<>>, written |-> FALSE]

\* the server with no request in progress
ApiIdle ==
    /\ apiPc = "idle"
    /\ apiResp = 0
    /\ commit = NoCommit
    /\ httpPc = "idle"
    /\ httpReq = NoRequest
    /\ httpResp = NoResponse
    /\ held = NoHeld
    /\ heldShared = {}

\* the manager right after NewManager, with no call in progress, and a
\* daemon that holds the first n containers already
ContIdleOn(n) ==
    /\ docker = [i \in Cids |-> IF i <= n THEN [status |-> "running", gpuIDs |-> <<>>]
                                 ELSE DockerAbsent]
    /\ containers = EmptyMap
    /\ contPc = [t \in ContCallers |-> "idle"]
    /\ contOp = [t \in ContCallers |-> "none"]
    /\ contRes = [t \in ContCallers |-> "none"]
    /\ contTodo = [t \in ContCallers |-> <<>>]
    /\ contArg = [t \in ContCallers |-> NoKey]
    /\ contInfo = [t \in ContCallers |-> NoInfo]
    /\ contOld = [t \in ContCallers |-> {}]
    /\ contListed = [t \in ContCallers |-> {}]
    /\ contWrote = [t \in ContCallers |-> FALSE]
    /\ contRead = [op |-> "none", keys |-> {}, allowed |-> {{}}]
    /\ contReq = [t \in ContCallers |-> NoReq]

ContIdle == ContIdleOn(0)

(***************************************************************************)
(* Calls from entry to return as one step each, for the specifications of  *)
(* the whole agent, where what happens inside the call is of no concern.   *)
(***************************************************************************)
\* Monitor.RefreshGPUInfo after its entry: it returns an error and leaves
\* m.gpus alone, or stores the slice built from the readings and returns nil
GpuRefreshReturns(t, readings) ==
    /\ gpuPc[t] = "build"
    /\ \/ /\ GpuReturn(t, "err")
          /\ UNCHANGED <<gpus, gpuWrote>>
       \/ /\ \E rs \in [1 .. NumGPUs -> readings] :
                gpus' = [i \in 1 .. NumGPUs |-> MakeGPUInfo(i - 1, rs[i])]
          /\ gpuWrote' = [gpuWrote EXCEPT ![t] = TRUE]
          /\ GpuReturn(t, "nil")
    /\ UNCHANGED gpuRead
    /\ UNCHANGED exceptGpu

\* Manager.RefreshContainers after its entry: docker ps fails and the map
\* is left alone, or the map is rebuilt from the containers docker inspect
\* answers for and nil is returned
ContRefreshEnds(t) ==
    /\ contPc[t] = "list"
    /\ \/ /\ ContReturn(t, "err")
          /\ UNCHANGED <<containers, contWrote>>
       \/ /\ ~CommandCancelled(t)
          /\ \E answered \in SUBSET {i \in Cids : Exists(i)} :
                containers' = [k \in {ShortId(i) : i \in answered} |->
                                  InspectInfo(CidOf(k))]
          /\ contWrote' = [contWrote EXCEPT ![t] = TRUE]
          /\ ContReturn(t, "nil")
    /\ UNCHANGED <<docker, contOp, contTodo, contInfo, contRead, contReq>>

ContRefreshReturns(t) ==
    /\ ContRefreshEnds(t)
    /\ UNCHANGED exceptCont

\* Manager.Stop after its entry, up to its return.  Without a process it
\* returns nil.  Otherwise SIGTERM is sent and the process is waited for: it
\* exits within the ten seconds and Stop returns what Wait returned, or it
\* was reaped before and Wait fails at once, or it ignores SIGTERM, is
\* killed after the ten seconds and Stop returns nil.
SupStopReturns(c) ==
    /\ supPc[c] = "stop_check"
    /\ IF ~HasProcess
       THEN /\ StopReturns(c, "nil")
            /\ UNCHANGED <<procs, termed, killed>>
       ELSE \/ /\ SignalOk(mcmd)
               /\ termed' = termed \cup {mcmd}
               /\ procs' = [procs EXCEPT ![mcmd] = "reaped"]
               /\ \E e \in {"nil", "err"} : StopReturns(c, e)
               /\ UNCHANGED killed
            \/ /\ ~SignalOk(mcmd)
               /\ StopReturns(c, "err")
               /\ UNCHANGED <<procs, termed, killed>>
            \/ /\ procs[mcmd] = "live"
               /\ termed' = termed \cup {mcmd}
               /\ killed' = killed \cup {mcmd}
               /\ procs' = [procs EXCEPT ![mcmd] = "reaped"]
               /\ StopReturns(c, "nil")
    /\ UNCHANGED <<cancelled, mcmd, mconfig, cfgFile, cfgFrom, supOp, stopTarget,
                   stopWaited, doneCh>>
    /\ UNCHANGED exceptSup

(***************************************************************************)
(* agent.Agent: Start, the goroutines it launches, and Stop; main.         *)
(***************************************************************************)
Tasks == {"gpuTask", "contTask", "frpTask"}
Goroutines == Tasks \cup {"api"}

\* the order of the steps in Agent.Start
StartOrder == <<"bootstrap", "monitors", "container", "frp", "api", "tasks">>

\* Agent.wg: the goroutines added and not yet done
WgCount == Cardinality({g \in Goroutines : taskPc[g] \notin {"unstarted", "done"}})

\* what SaveNodeID and Register leave behind besides the identity file
idVars == <<idTmp, regResp, registerCalls>>
\* the variables of the agent that only Start and its steps write
startVars == <<idFile, idVars, nodeID, inited, startPc, startRes, steps, failedStep, errChan>>
\* the variables that only Stop writes
stopVars == <<stopPc, stopRes, stopSteps, drainWaited, drainWarned, gpuClosed, stopErr,
              apiShutdown>>
\* the variables of the goroutines
taskVars == <<taskPc, tickPending, apiBindFailed>>
mainVars == <<mainPc, mainCause>>
\* the variables of frp.Manager that entering one of its entry points leaves alone
supRest == <<procs, termed, killed, mcmd, cfgFile, cfgFrom, stopTarget, stopWaited, doneCh,
            sigtermFailed>>

\* The caller t has read the error its call returned; it prints it or
\* returns it and keeps nothing of the call.
GpuResultRead(t) ==
    /\ gpuRes' = [gpuRes EXCEPT ![t] = "none"]
    /\ gpuWrote' = [gpuWrote EXCEPT ![t] = FALSE]
    /\ UNCHANGED <<gpus, gpuPc, gpuScratch, gpuOld, gpuRead>>

ContResultRead(t) ==
    /\ contRes' = [contRes EXCEPT ![t] = "none"]
    /\ contWrote' = [contWrote EXCEPT ![t] = FALSE]
    /\ UNCHANGED <<docker, containers, contPc, contOp, contTodo, contArg, contInfo,
                   contOld, contListed, contRead, contReq>>

SupResultRead(c) ==
    /\ supRes' = [supRes EXCEPT ![c] = "none"]
    /\ UNCHANGED <<supRest, cancelled, mconfig, supPc, supOp>>

\* main: go func() { if err := nodeAgent.Start(); err != nil { errChan <- err } }()
MainGoStart ==
    /\ mainPc = "init"
    /\ mainPc' = "select"
    /\ startPc' = "bootstrap"
    /\ UNCHANGED <<idFile, idVars, nodeID, inited, startRes, steps, failedStep,
                   errChan, mainCause>>
    /\ UNCHANGED <<stopVars, taskVars, supVars, gpuVars, contVars, apiVars>>

\* A Start that notes the error of a step and goes on with the listener.
StartFailsAndGoesOn(step) ==
    /\ startPc' = "api"
    /\ startRes' = "err"
    /\ failedStep' = step
    /\ errChan' = "err"

\* a step of Agent.Start returns an error: Start wraps and returns it, and
\* the goroutine of main sends it on errChan (buffered, capacity one)
StartFails(step) ==
    /\ startPc' = "done"
    /\ startRes' = "err"
    /\ failedStep' = step
    /\ errChan' = "err"

\* what the steps of Agent.bootstrap leave alone
exceptBootstrap == <<inited, mainVars, stopVars, taskVars, supVars, gpuVars, contVars, apiVars>>

\* a bootstrap that registers again although an identity is on file
AgentBootstrapAlwaysRegisters ==
    /\ startPc = "bootstrap"
    /\ steps' = Append(steps, "bootstrap")
    /\ startPc' = "register"
    /\ UNCHANGED <<nodeID, startRes, failedStep, errChan>>
    /\ UNCHANGED <<idFile, idVars>>
    /\ UNCHANGED exceptBootstrap

\* Agent.bootstrap: LoadNodeID.  A file that cannot be read is an error; an
\* identity on file is taken and bootstrap returns; otherwise bootstrap
\* goes on to register.
AgentBootstrap ==
    /\ startPc = "bootstrap"
    /\ steps' = Append(steps, "bootstrap")
    /\ \/ /\ idFile.exists
          /\ StartFails("bootstrap")
          /\ UNCHANGED nodeID
       \/ /\ LoadNodeID(idFile) # NoIdentity
          /\ nodeID' = LoadNodeID(idFile)
          /\ startPc' = "monitors"
          /\ UNCHANGED <<startRes, failedStep, errChan>>
       \/ /\ LoadNodeID(idFile) = NoIdentity
          /\ startPc' = "register"
          /\ UNCHANGED <<nodeID, startRes, failedStep, errChan>>
    /\ UNCHANGED <<idFile, idVars>>
    /\ UNCHANGED exceptBootstrap

\* Agent.bootstrap: GetHostname, then Client.Register, which fails or
\* returns one of the ids
AgentRegister(ids) ==
    /\ startPc = "register"
    /\ registerCalls < MaxRegisterCalls
    /\ \/ /\ StartFails("bootstrap")
          /\ \E called \in BOOLEAN :
                registerCalls' = registerCalls + (IF called THEN 1 ELSE 0)
          /\ UNCHANGED regResp
       \/ /\ registerCalls' = registerCalls + 1
          /\ regResp' \in ids
          /\ startPc' = "saveMkdir"
          /\ UNCHANGED <<startRes, failedStep, errChan>>
    /\ UNCHANGED <<idFile, idTmp, nodeID, steps>>
    /\ UNCHANGED exceptBootstrap

\* SaveNodeID: os.MkdirAll of the directory of the identity file
SaveMkdirAll ==
    /\ startPc = "saveMkdir"
    /\ \/ StartFails("bootstrap")
       \/ /\ startPc' = "saveWrite"
          /\ UNCHANGED <<startRes, failedStep, errChan>>
    /\ UNCHANGED <<idFile, idVars, nodeID, steps>>
    /\ UNCHANGED exceptBootstrap

\* the bytes SaveNodeID is given for the id the platform returned
SavedBytes == FormatInt(regResp)

\* what a WriteFile of the temporary file that does not complete leaves: the
\* file as it was when it could not be opened, or a part of the bytes
PartialTmp == {idTmp} \cup {File(part) : part \in Prefixes(SavedBytes) \ {SavedBytes}}

\* a SaveNodeID that writes the bytes to the identity file itself
SaveWriteInPlace ==
    /\ startPc = "saveWrite"
    /\ \/ /\ idFile' \in {idFile} \cup {File(part) : part \in Prefixes(SavedBytes) \ {SavedBytes}}
          /\ StartFails("bootstrap")
          /\ UNCHANGED idTmp
       \/ /\ idFile' = File(SavedBytes)
          /\ idTmp' = File(SavedBytes)
          /\ startPc' = "saveRename"
          /\ UNCHANGED <<startRes, failedStep, errChan>>
    /\ UNCHANGED <<regResp, registerCalls, nodeID, steps>>
    /\ UNCHANGED exceptBootstrap

\* SaveNodeID: os.WriteFile(tmpFile, []byte(nodeID), 0644)
SaveWriteTmp ==
    /\ startPc = "saveWrite"
    /\ \/ /\ idTmp' \in PartialTmp
          /\ StartFails("bootstrap")
          /\ UNCHANGED idFile
       \/ /\ idTmp' = File(SavedBytes)
          /\ startPc' = "saveRename"
          /\ UNCHANGED <<idFile, startRes, failedStep, errChan>>
    /\ UNCHANGED <<regResp, registerCalls, nodeID, steps>>
    /\ UNCHANGED exceptBootstrap

\* SaveNodeID: os.Rename(tmpFile, filePath), which replaces the identity
\* file in one step; when it fails the temporary file is removed, if it
\* can be
SaveRename ==
    /\ startPc = "saveRename"
    /\ \/ /\ idFile' = idTmp
          /\ idTmp' = NoFile
          /\ startPc' = "saved"
          /\ UNCHANGED <<startRes, failedStep, errChan>>
       \/ /\ idTmp' \in {NoFile, idTmp}
          /\ StartFails("bootstrap")
          /\ UNCHANGED idFile
    /\ UNCHANGED <<regResp, registerCalls, nodeID, steps>>
    /\ UNCHANGED exceptBootstrap

\* Agent.bootstrap: a.nodeID = strconv.FormatInt(regResp.NodeID, 10)
AgentBootstrapped ==
    /\ startPc = "saved"
    /\ nodeID' = FormatInt(regResp)
    /\ startPc' = "monitors"
    /\ UNCHANGED <<idFile, idVars, startRes, steps, failedStep, errChan>>
    /\ UNCHANGED exceptBootstrap

\* Agent.initializeMonitors: gpu.NewMonitor, then the call of RefreshGPUInfo
AgentInitMonitors ==
    /\ startPc = "monitors"
    /\ steps' = Append(steps, "monitors")
    /\ \/ /\ StartFails("monitors")
          /\ UNCHANGED <<inited, gpuVars>>
       \/ /\ inited' = [inited EXCEPT !.gpu = TRUE]
          /\ GpuEnterRefresh("start")
          /\ startPc' = "monitorsRefresh"
          /\ UNCHANGED <<startRes, failedStep, errChan>>
    /\ UNCHANGED <<idFile, idVars, nodeID>>
    /\ UNCHANGED <<mainVars, stopVars, taskVars, supVars, contVars, apiVars>>

\* Agent.initializeMonitors: RefreshGPUInfo has returned; GetGPUCount
AgentMonitorsRefreshed ==
    /\ startPc = "monitorsRefresh"
    /\ gpuPc["start"] = "idle"
    /\ \/ StartFails("monitors")
       \/ /\ gpuRes["start"] = "nil"
          /\ startPc' = "container"
          /\ UNCHANGED <<startRes, failedStep, errChan>>
    /\ GpuResultRead("start")
    /\ UNCHANGED <<idFile, idVars, nodeID, inited, steps>>
    /\ UNCHANGED <<mainVars, stopVars, taskVars, supVars, contVars, apiVars>>

\* Agent.initializeContainerManager: container.NewManager, which fails when
\* docker version fails, then the call of RefreshContainers
AgentInitContainerManager ==
    /\ startPc = "container"
    /\ steps' = Append(steps, "container")
    /\ \/ /\ StartFails("container")
          /\ UNCHANGED <<inited, contVars>>
       \/ /\ inited' = [inited EXCEPT !.cont = TRUE]
          /\ ContEnterRefreshContainers("start")
          /\ startPc' = "containerRefresh"
          /\ UNCHANGED <<startRes, failedStep, errChan>>
    /\ UNCHANGED <<idFile, idVars, nodeID>>
    /\ UNCHANGED <<mainVars, stopVars, taskVars, supVars, gpuVars, apiVars>>

\* Agent.initializeContainerManager: RefreshContainers has returned; an
\* error is printed as a warning and nil is returned
AgentContainersRefreshed ==
    /\ startPc = "containerRefresh"
    /\ contPc["start"] = "idle"
    /\ startPc' = "frp"
    /\ ContResultRead("start")
    /\ UNCHANGED <<idFile, idVars, nodeID, inited, startRes, steps, failedStep, errChan>>
    /\ UNCHANGED <<mainVars, stopVars, taskVars, supVars, gpuVars, apiVars>>

\* Agent.startFRP: generateFRPConfig with one of the counts GetGPUCount
\* returns (0 with an error, which is dropped), frp.NewManager, then the
\* call of Manager.Start
AgentStartFRP(counts) ==
    /\ startPc = "frp"
    /\ steps' = Append(steps, "frp")
    /\ \/ /\ StartFails("frp")
          /\ UNCHANGED <<inited, supVars>>
       \/ /\ inited' = [inited EXCEPT !.frp = TRUE]
          /\ \E n \in counts :
                mconfig' = GenerateFRPConfig(DefaultFRP, nodeID, ListenAddress, n)
          /\ SupEnter("start", "Start")
          /\ startPc' = "frpStart"
          /\ UNCHANGED <<startRes, failedStep, errChan, supRest, cancelled>>
    /\ UNCHANGED <<idFile, idVars, nodeID>>
    /\ UNCHANGED <<mainVars, stopVars, taskVars, gpuVars, contVars, apiVars>>

\* Agent.startFRP: Manager.Start has returned
AgentFRPStarted ==
    /\ startPc = "frpStart"
    /\ supPc["start"] = "idle"
    /\ IF supRes["start"] = "err"
       THEN StartFails("frp")
       ELSE /\ startPc' = "api"
            /\ UNCHANGED <<startRes, failedStep, errChan>>
    /\ SupResultRead("start")
    /\ UNCHANGED <<idFile, idVars, nodeID, inited, steps>>
    /\ UNCHANGED <<mainVars, stopVars, taskVars, gpuVars, contVars, apiVars>>

\* Agent.startAPIServer: api.NewServer, wg.Add(1), go func() { ... }()
AgentStartAPIServer ==
    /\ startPc = "api"
    /\ steps' = Append(steps, "api")
    /\ inited' = [inited EXCEPT !.api = TRUE]
    /\ taskPc' = [taskPc EXCEPT !["api"] = "starting"]
    /\ startPc' = "apiSleep"
    /\ UNCHANGED <<idFile, idVars, nodeID, startRes, failedStep, errChan>>
    /\ UNCHANGED <<tickPending, apiBindFailed>>
    /\ UNCHANGED <<mainVars, stopVars, supVars, gpuVars, contVars, apiVars>>

\* Agent.startAPIServer: time.Sleep(1s), the message, return nil
AgentAPISleep ==
    /\ startPc = "apiSleep"
    /\ startPc' = "tasks"
    /\ UNCHANGED <<idFile, idVars, nodeID, inited, startRes, steps, failedStep,
                   errChan>>
    /\ UNCHANGED <<mainVars, stopVars, taskVars, supVars, gpuVars, contVars, apiVars>>

\* Agent.startBackgroundTasks, and Start returns nil
AgentStartBackgroundTasks ==
    /\ startPc = "tasks"
    /\ steps' = Append(steps, "tasks")
    /\ taskPc' = [g \in Goroutines |-> IF g \in Tasks THEN "new" ELSE taskPc[g]]
    /\ startPc' = "done"
    /\ startRes' = "nil"
    /\ UNCHANGED <<idFile, idVars, nodeID, inited, failedStep, errChan>>
    /\ UNCHANGED <<tickPending, apiBindFailed>>
    /\ UNCHANGED <<mainVars, stopVars, supVars, gpuVars, contVars, apiVars>>

(***************************************************************************)
(* The listener goroutine of startAPIServer.                               *)
(***************************************************************************)
\* Server.Start: s.server = &http.Server{...}
ListenerCreate ==
    /\ taskPc["api"] = "starting"
    /\ taskPc' = [taskPc EXCEPT !["api"] = "created"]
    /\ UNCHANGED <<tickPending, apiBindFailed>>
    /\ UNCHANGED <<mainVars, startVars, stopVars, supVars, gpuVars, contVars, apiVars>>

\* Server.Start: ListenAndServe.  After Shutdown it returns ErrServerClosed,
\* which Start turns into nil; otherwise it binds the address and serves, or
\* fails, and then the goroutine prints "API server error" and ends.
ListenerBind ==
    /\ taskPc["api"] = "created"
    /\ IF apiShutdown
       THEN /\ taskPc' = [taskPc EXCEPT !["api"] = "done"]
            /\ UNCHANGED apiBindFailed
       ELSE \/ /\ taskPc' = [taskPc EXCEPT !["api"] = "serving"]
               /\ UNCHANGED apiBindFailed
            \/ /\ taskPc' = [taskPc EXCEPT !["api"] = "done"]
               /\ apiBindFailed' = TRUE
    /\ UNCHANGED tickPending
    /\ UNCHANGED <<mainVars, startVars, stopVars, supVars, gpuVars, contVars, apiVars>>

\* Server.Start: ListenAndServe returns ErrServerClosed after Shutdown
ListenerClosed ==
    /\ taskPc["api"] = "serving"
    /\ apiShutdown
    /\ taskPc' = [taskPc EXCEPT !["api"] = "done"]
    /\ UNCHANGED <<tickPending, apiBindFailed>>
    /\ UNCHANGED <<mainVars, startVars, stopVars, supVars, gpuVars, contVars, apiVars>>

(***************************************************************************)
(* The periodic tasks: ticker := time.NewTicker(...); for { select {       *)
(* case <-a.ctx.Done(): return; case <-ticker.C: action } }                *)
(***************************************************************************)
\* tasks that share one lock, held for the whole of an action
TaskBeginUnderGlobalLock(t) ==
    /\ gpuPc["gpuTask"] = "idle" /\ contPc["contTask"] = "idle" /\ supPc["frpTask"] = "idle"
    /\ taskPc' = [taskPc EXCEPT ![t] = "action"]
    /\ CASE t = "gpuTask" ->
              /\ GpuEnterRefresh(t)
              /\ UNCHANGED <<supVars, contVars>>
         [] t = "contTask" ->
              /\ ContEnterRefreshContainers(t)
              /\ UNCHANGED <<supVars, gpuVars>>
         [] t = "frpTask" ->
              /\ IF IsRunning
                 THEN SupResultRead(t)
                 ELSE /\ SupEnter(t, "Restart")
                      /\ UNCHANGED <<supRest, cancelled, mconfig>>
              /\ UNCHANGED <<gpuVars, contVars>>

\* a health check that prints the death of the process and restarts nothing
TaskBeginWithoutRestart(t) ==
    /\ taskPc' = [taskPc EXCEPT ![t] = "action"]
    /\ CASE t = "gpuTask" ->
              /\ GpuEnterRefresh(t)
              /\ UNCHANGED <<supVars, contVars>>
         [] t = "contTask" ->
              /\ ContEnterRefreshContainers(t)
              /\ UNCHANGED <<supVars, gpuVars>>
         [] t = "frpTask" ->
              /\ SupResultRead(t)
              /\ UNCHANGED <<gpuVars, contVars>>

\* the action of the task t begins: RefreshGPUInfo, RefreshContainers, or
\* the IsRunning check, which is followed by Restart when it is false
TaskBegin(t) ==
    /\ taskPc' = [taskPc EXCEPT ![t] = "action"]
    /\ CASE t = "gpuTask" ->
              /\ GpuEnterRefresh(t)
              /\ UNCHANGED <<supVars, contVars>>
         [] t = "contTask" ->
              /\ ContEnterRefreshContainers(t)
              /\ UNCHANGED <<supVars, gpuVars>>
         [] t = "frpTask" ->
              /\ IF IsRunning
                 THEN SupResultRead(t)
                 ELSE /\ SupEnter(t, "Restart")
                      /\ UNCHANGED <<supRest, cancelled, mconfig>>
              /\ UNCHANGED <<gpuVars, contVars>>

\* the call the task t made has returned
ActionReturned(t) ==
    CASE t = "gpuTask" -> gpuPc[t] = "idle"
      [] t = "contTask" -> contPc[t] = "idle"
      [] t = "frpTask" -> supPc[t] = "idle"

\* the task t has printed the error of its action, if any
TaskResultRead(t) ==
    CASE t = "gpuTask" -> GpuResultRead(t) /\ UNCHANGED <<supVars, contVars>>
      [] t = "contTask" -> ContResultRead(t) /\ UNCHANGED <<supVars, gpuVars>>
      [] t = "frpTask" -> SupResultRead(t) /\ UNCHANGED <<gpuVars, contVars>>

\* a task that gives up after an action that has returned an error
TaskSelectEndsOnError(t) ==
    /\ \/ taskPc[t] = "new"
       \/ taskPc[t] = "action" /\ ActionReturned(t)
    /\ \/ /\ \/ cancelled
             \/ t = "gpuTask" /\ gpuRes[t] = "err"
             \/ t = "contTask" /\ contRes[t] = "err"
             \/ t = "frpTask" /\ supRes[t] = "err"
          /\ taskPc' = [taskPc EXCEPT ![t] = "done"]
          /\ TaskResultRead(t)
          /\ UNCHANGED tickPending
       \/ /\ tickPending[t]
          /\ tickPending' = [tickPending EXCEPT ![t] = FALSE]
          /\ TaskBegin(t)
       \/ /\ ~cancelled
          /\ ~tickPending[t]
          /\ taskPc' = [taskPc EXCEPT ![t] = "blocked"]
          /\ TaskResultRead(t)
          /\ UNCHANGED tickPending
    /\ UNCHANGED apiBindFailed
    /\ UNCHANGED <<mainVars, startVars, stopVars, apiVars>>

\* the task t reaches its select, when the goroutine has started or when
\* the action is over.  Of the cases that are ready one is taken, whichever;
\* with none ready the goroutine blocks.
TaskSelect(t) ==
    /\ \/ taskPc[t] = "new"
       \/ taskPc[t] = "action" /\ ActionReturned(t)
    /\ \/ /\ cancelled
          /\ taskPc' = [taskPc EXCEPT ![t] = "done"]
          /\ TaskResultRead(t)
          /\ UNCHANGED tickPending
       \/ /\ tickPending[t]
          /\ tickPending' = [tickPending EXCEPT ![t] = FALSE]
          /\ TaskBegin(t)
       \/ /\ ~cancelled
          /\ ~tickPending[t]
          /\ taskPc' = [taskPc EXCEPT ![t] = "blocked"]
          /\ TaskResultRead(t)
          /\ UNCHANGED tickPending
    /\ UNCHANGED apiBindFailed
    /\ UNCHANGED <<mainVars, startVars, stopVars, apiVars>>

\* the ticker of the task t fires: a goroutine blocked in the select
\* receives the tick and begins its action; during an action the tick is
\* kept in the buffer of ticker.C, or dropped when the buffer is full
TickFire(t) ==
    /\ \/ /\ taskPc[t] = "blocked"
          /\ ~cancelled
          /\ TaskBegin(t)
          /\ UNCHANGED tickPending
       \/ /\ taskPc[t] = "action"
          /\ ~tickPending[t]
          /\ tickPending' = [tickPending EXCEPT ![t] = TRUE]
          /\ UNCHANGED <<taskPc, supVars, gpuVars, contVars>>
    /\ UNCHANGED apiBindFailed
    /\ UNCHANGED <<mainVars, startVars, stopVars, apiVars>>

\* a goroutine blocked in the select is woken by the cancelled context
TaskReturn(t) ==
    /\ taskPc[t] = "blocked"
    /\ cancelled
    /\ taskPc' = [taskPc EXCEPT ![t] = "done"]
    /\ UNCHANGED <<tickPending, apiBindFailed>>
    /\ UNCHANGED <<mainVars, startVars, stopVars, supVars, gpuVars, contVars, apiVars>>

(***************************************************************************)
(* main after the launch of Start, and Agent.Stop.  main's forced exits    *)
(* (a second signal, 20 seconds of shutdown) end the program and with it   *)
(* every behaviour; they add no state and are left out.                    *)
(***************************************************************************)
\* main: case sig := <-sigChan, then go func() { shutdownDone <- Stop() }()
MainSignal ==
    /\ mainPc = "select"
    /\ mainPc' = "shutdown"
    /\ mainCause' = "signal"
    /\ stopPc' = "cancel"
    /\ UNCHANGED <<stopRes, stopSteps, drainWaited, drainWarned, gpuClosed,
                   stopErr, apiShutdown>>
    /\ UNCHANGED <<startVars, taskVars, supVars, gpuVars, contVars, apiVars>>

\* main: case err := <-errChan, then go func() { shutdownDone <- Stop() }()
MainError ==
    /\ mainPc = "select"
    /\ errChan = "err"
    /\ errChan' = "empty"
    /\ mainPc' = "shutdown"
    /\ mainCause' = "error"
    /\ stopPc' = "cancel"
    /\ UNCHANGED <<stopRes, stopSteps, drainWaited, drainWarned, gpuClosed,
                   stopErr, apiShutdown>>
    /\ UNCHANGED <<idFile, idVars, nodeID, inited, startPc, startRes, steps, failedStep>>
    /\ UNCHANGED <<taskVars, supVars, gpuVars, contVars, apiVars>>

\* main: case err := <-shutdownDone
MainShutdownDone ==
    /\ mainPc = "shutdown"
    /\ stopPc = "done"
    /\ mainPc' = "exit"
    /\ UNCHANGED mainCause
    /\ UNCHANGED <<startVars, stopVars, taskVars, supVars, gpuVars, contVars, apiVars>>

\* Agent.Stop: a.cancel(), and the goroutine that runs a.wg.Wait()
AgentStopCancel ==
    /\ stopPc = "cancel"
    /\ cancelled' = TRUE
    /\ stopSteps' = Append(stopSteps, "cancel")
    /\ drainWaited' = 0
    /\ stopPc' = "drain"
    /\ stopErr' = {}
    /\ UNCHANGED <<stopRes, drainWarned, gpuClosed, apiShutdown>>
    /\ UNCHANGED <<supRest, mconfig, supPc, supOp, supRes>>
    /\ UNCHANGED <<mainVars, startVars, taskVars, gpuVars, contVars, apiVars>>

\* Agent.Stop: five more seconds pass in the select
AgentDrainTick ==
    /\ stopPc = "drain"
    /\ drainWaited < DrainTimeout
    /\ drainWaited' = drainWaited + 5
    /\ UNCHANGED <<stopPc, stopRes, stopSteps, drainWarned, gpuClosed, stopErr, apiShutdown>>
    /\ UNCHANGED <<mainVars, startVars, taskVars, supVars, gpuVars, contVars, apiVars>>

\* Agent.Stop: case <-done, closed once wg.Wait() has returned
AgentDrainDone ==
    /\ stopPc = "drain"
    /\ WgCount = 0
    /\ stopSteps' = Append(stopSteps, "drained")
    /\ stopPc' = "api"
    /\ UNCHANGED <<stopRes, drainWaited, drainWarned, gpuClosed, stopErr, apiShutdown>>
    /\ UNCHANGED <<mainVars, startVars, taskVars, supVars, gpuVars, contVars, apiVars>>

\* A Stop that gives up with an error when the goroutines have not ended.
AgentDrainTimeoutFails ==
    /\ stopPc = "drain"
    /\ drainWaited >= DrainTimeout
    /\ drainWarned' = TRUE
    /\ stopSteps' = Append(stopSteps, "drainTimeout")
    /\ stopPc' = "done"
    /\ stopRes' = "err"
    /\ UNCHANGED <<drainWaited, gpuClosed, stopErr, apiShutdown>>
    /\ UNCHANGED <<mainVars, startVars, taskVars, supVars, gpuVars, contVars, apiVars>>

\* Agent.Stop: case <-time.After(15s): the warning is printed
AgentDrainTimeout ==
    /\ stopPc = "drain"
    /\ drainWaited >= DrainTimeout
    /\ drainWarned' = TRUE
    /\ stopSteps' = Append(stopSteps, "drainTimeout")
    /\ stopPc' = "api"
    /\ UNCHANGED <<stopRes, drainWaited, gpuClosed, stopErr, apiShutdown>>
    /\ UNCHANGED <<mainVars, startVars, taskVars, supVars, gpuVars, contVars, apiVars>>

\* A Stop that returns the error of Server.Stop and leaves the rest undone.
AgentStopAPIGivesUp ==
    /\ stopPc = "api"
    /\ apiShutdown' = (inited.api /\ taskPc["api"] # "starting")
    /\ stopSteps' = IF inited.api THEN Append(stopSteps, "api") ELSE stopSteps
    /\ \/ stopErr' = {} /\ stopPc' = "frp" /\ UNCHANGED stopRes
       \/ apiShutdown' /\ stopErr' = {"api"} /\ stopPc' = "done" /\ stopRes' = "err"
    /\ UNCHANGED <<drainWaited, drainWarned, gpuClosed>>
    /\ UNCHANGED <<mainVars, startVars, taskVars, supVars, gpuVars, contVars, apiVars>>

\* Agent.Stop: a.apiServer.Stop(ctx) when a.apiServer is set.  Server.Stop
\* returns nil while s.server is nil and calls Shutdown otherwise, which
\* fails when the five seconds of ctx run out; the error is printed.
AgentStopAPI ==
    /\ stopPc = "api"
    /\ apiShutdown' = (inited.api /\ taskPc["api"] # "starting")
    /\ \/ stopErr' = {}
       \/ apiShutdown' /\ stopErr' = {"api"}
    /\ stopSteps' = IF inited.api THEN Append(stopSteps, "api") ELSE stopSteps
    /\ stopPc' = "frp"
    /\ UNCHANGED <<stopRes, drainWaited, drainWarned, gpuClosed>>
    /\ UNCHANGED <<mainVars, startVars, taskVars, supVars, gpuVars, contVars, apiVars>>

\* A Stop that calls Manager.Stop without looking at a.frpManager.
AgentStopFRPUnchecked ==
    /\ stopPc = "frp"
    /\ SupEnter("stop", "Stop")
    /\ stopSteps' = Append(stopSteps, "frp")
    /\ stopPc' = "frpStop"
    /\ UNCHANGED <<supRest, cancelled, mconfig>>
    /\ UNCHANGED <<stopRes, drainWaited, drainWarned, gpuClosed, stopErr, apiShutdown>>
    /\ UNCHANGED <<mainVars, startVars, taskVars, gpuVars, contVars, apiVars>>

\* Agent.Stop: a.frpManager.Stop() when a.frpManager is set
AgentStopFRP ==
    /\ stopPc = "frp"
    /\ IF inited.frp
       THEN /\ SupEnter("stop", "Stop")
            /\ stopSteps' = Append(stopSteps, "frp")
            /\ stopPc' = "frpStop"
       ELSE /\ stopPc' = "close"
            /\ UNCHANGED <<supPc, supOp, supRes, stopSteps>>
    /\ UNCHANGED <<supRest, cancelled, mconfig>>
    /\ UNCHANGED <<stopRes, drainWaited, drainWarned, gpuClosed, stopErr, apiShutdown>>
    /\ UNCHANGED <<mainVars, startVars, taskVars, gpuVars, contVars, apiVars>>

\* Agent.Stop: Manager.Stop has returned, its error is printed;
\* a.frpManager.CleanupConfig(), whose os.Remove may fail, which is printed
AgentFRPStopped ==
    /\ stopPc = "frpStop"
    /\ supPc["stop"] = "idle"
    /\ \E removed \in BOOLEAN :
          /\ removed \/ cfgFile # FileAbsent
          /\ cfgFile' = IF removed THEN FileAbsent ELSE cfgFile
          /\ UNCHANGED cfgFrom
          /\ stopErr' = (IF supRes["stop"] = "err" THEN {"frp"} ELSE {})
                          \cup (IF removed THEN {} ELSE {"cleanup"})
    /\ stopPc' = "close"
    /\ supRes' = [supRes EXCEPT !["stop"] = "none"]
    /\ UNCHANGED <<procs, termed, killed, cancelled, mcmd, mconfig, supPc, supOp,
                   stopTarget, stopWaited, doneCh, sigtermFailed>>
    /\ UNCHANGED <<stopRes, stopSteps, drainWaited, drainWarned, gpuClosed,
                   apiShutdown>>
    /\ UNCHANGED <<mainVars, startVars, taskVars, gpuVars, contVars, apiVars>>

\* Agent.Stop: a.gpuMonitor.Close() and a.containerManager.Close() for
\* those that are set, the last message, return nil
AgentClose ==
    /\ stopPc = "close"
    /\ gpuClosed' = inited.gpu
    /\ \/ stopErr' = {}
       \/ inited.gpu /\ stopErr' = {"gpu"}
    /\ stopSteps' = stopSteps \o (IF inited.gpu THEN <<"gpu">> ELSE <<>>)
                              \o (IF inited.cont THEN <<"container">> ELSE <<>>)
    /\ stopPc' = "done"
    /\ stopRes' = "nil"
    /\ UNCHANGED <<drainWaited, drainWarned, apiShutdown>>
    /\ UNCHANGED <<mainVars, startVars, taskVars, supVars, gpuVars, contVars, apiVars>>

\* main has parsed its flags and agent.New has returned the Agent; file is
\* what the identity file holds
AgentIdle(file) ==
    /\ idFile = file
    /\ idTmp = NoFile
    /\ regResp = 0
    /\ registerCalls = 0
    /\ mainPc = "init"
    /\ mainCause = "none"
    /\ errChan = "empty"
    /\ nodeID = NoIdentity
    /\ inited = [gpu |-> FALSE, cont |-> FALSE, frp |-> FALSE, api |-> FALSE]
    /\ startPc = "unstarted"
    /\ startRes = "none"
    /\ steps = <<>>
    /\ failedStep = "none"
    /\ taskPc = [g \in Goroutines |-> "unstarted"]
    /\ tickPending = [t \in Tasks |-> FALSE]
    /\ apiShutdown = FALSE
    /\ apiBindFailed = FALSE
    /\ stopPc = "idle"
    /\ stopRes = "none"
    /\ stopSteps = <<>>
    /\ drainWaited = 0
    /\ drainWarned = FALSE
    /\ gpuClosed = FALSE
    /\ stopErr = {}

(***************************************************************************)
(* The supervisor alone, driven by one client that calls its entry points  *)
(* one after the other in any order.                                       *)
(***************************************************************************)
\* the manager right after NewManager(config), with no call in progress
SupIdle(config) ==
    /\ procs = [p \in Pids |-> "unborn"]
    /\ termed = {}
    /\ killed = {}
    /\ cancelled = FALSE
    /\ mcmd = NoCmd
    /\ mconfig = config
    /\ cfgFile = FileAbsent
    /\ cfgFrom = NoConfig
    /\ supPc = [c \in SupCallers |-> "idle"]
    /\ supOp = [c \in SupCallers |-> "none"]
    /\ supRes = [c \in SupCallers |-> "none"]
    /\ stopTarget = [c \in SupCallers |-> 0]
    /\ stopWaited = [c \in SupCallers |-> 0]
    /\ doneCh = [c \in SupCallers |-> "empty"]
    /\ sigtermFailed = [c \in SupCallers |-> FALSE]

\* the configuration Agent.startFRP hands to NewManager
AgentConfig == GenerateFRPConfig(DefaultFRP, RegisteredID, ListenAddress, NumGPUs)

\* every component constructed, nothing called yet
AllIdle == SupIdle(AgentConfig) /\ GpuIdle /\ ContIdle /\ ApiIdle /\ AgentIdle(NoFile)

SupInit ==
    /\ \E config \in Configs : SupIdle(config)
    /\ GpuIdle /\ ContIdle /\ ApiIdle /\ AgentIdle(NoFile)

SupNext ==
    \/ SupCallStart("client")
    \/ SupGenerateConfig("client")
    \/ SupLookPath("client")
    \/ SupLaunch("client")
    \/ SupProbe("client")
    \/ SupCallStop("client")
    \/ SupStopSignal("client")
    \/ SupWaitReturns("client")
    \/ SupStopTick("client")
    \/ SupStopDone("client")
    \/ SupStopTimeout("client")
    \/ SupStopKilled("client")
    \/ SupCallRestart("client")
    \/ SupRestartSleep("client")
    \/ \E config \in Configs : SupCallUpdateConfig("client", config)
    \/ SupCleanupConfig("client")
    \/ \E p \in Pids : ProcExit(p)
    \/ CtxCancel
    \/ \E p \in Pids : CtxKill(p)

SpecSup == SupInit /\ [][SupNext]_vars

(***************************************************************************)
(* The rendering of the configuration: a client starts the supervisor and  *)
(* hands it new configurations, each of which is rendered by the Start of  *)
(* the Restart that UpdateConfig runs.                                     *)
(***************************************************************************)
\* FRP settings of a configuration file that does not keep the defaults
OtherFRP ==
    [ServerAddr |-> "frp.example.org", ServerPort |-> 7001,
     Token |-> "rotated_token"]
\* the listen address "127.0.0.1:8001"
ListenOnDataPort == <<Part(FALSE, 0), Part(TRUE, 8001)>>
\* the listen address "localhost", which has no port
ListenNoPort == <<Part(FALSE, 0)>>

\* what generateFRPConfig returns for the listen addresses and accelerator
\* counts of the model under the default settings, and for other settings
RenderInputs ==
    {GenerateFRPConfig(DefaultFRP, RegisteredID, address, n) :
        address \in {ListenAddress, ListenOnDataPort, ListenNoPort},
        n \in 0 .. NumGPUs}
    \cup {GenerateFRPConfig(OtherFRP, RegisteredID, ListenAddress, NumGPUs)}

RenderInit ==
    /\ \E config \in RenderInputs : SupIdle(config)
    /\ GpuIdle /\ ContIdle /\ ApiIdle /\ AgentIdle(NoFile)

RenderNext ==
    \/ SupCallStart("client")
    \/ SupGenerateConfig("client")
    \/ SupLookPath("client")
    \/ SupLaunch("client")
    \/ SupProbe("client")
    \/ SupStopReturns("client")
    \/ SupRestartSleep("client")
    \/ \E config \in RenderInputs : SupCallUpdateConfig("client", config)
    \/ \E p \in Pids : ProcExit(p)

SpecRender == RenderInit /\ [][RenderNext]_vars

(***************************************************************************)
(* The accelerator cache alone: the periodic task refreshes it, handlers   *)
(* read it.                                                                *)
(***************************************************************************)
GpuNext ==
    \/ GpuCallRefresh("gpuTask")
    \/ GpuBuild("gpuTask", Readings)
    \/ GpuSwap("gpuTask")
    \/ GpuReadInfo
    \/ GpuReadAvailable

SpecGpu == AllIdle /\ [][GpuNext]_vars

(***************************************************************************)
(* The workload cache alone: the periodic task refreshes it, handlers read *)
(* it, and the docker daemon changes underneath.                           *)
(***************************************************************************)
ContNext ==
    \/ ContCallRefreshContainers("contTask")
    \/ ContList("contTask")
    \/ ContClear("contTask")
    \/ ContLoop("contTask")
    \/ ContInspect("contTask")
    \/ ContInsert("contTask")
    \/ ContReadList
    \/ \E i \in Cids : ContReadGet(ShortId(i))
    \/ EnvDockerRun
    \/ \E i \in Cids : EnvDockerExit(i)
    \/ \E i \in Cids : EnvDockerRemove(i)

SpecCont == AllIdle /\ [][ContNext]_vars

(***************************************************************************)
(* Both caches under their periodic refreshes, with providers that fail.   *)
(***************************************************************************)
RefreshNext ==
    \/ GpuCallRefresh("gpuTask")
    \/ GpuBuild("gpuTask", {IdleReading, MemBusyReading})
    \/ GpuSwap("gpuTask")
    \/ ContCallRefreshContainers("contTask")
    \/ ContList("contTask")
    \/ ContClear("contTask")
    \/ ContLoop("contTask")
    \/ ContInspect("contTask")
    \/ ContInsert("contTask")
    \/ EnvDockerRun
    \/ \E i \in Cids : EnvDockerRemove(i)

SpecRefresh == AllIdle /\ [][RefreshNext]_vars

(***************************************************************************)
(* Container creation through the API while the accelerator cache is       *)
(* refreshed.                                                              *)
(***************************************************************************)
CreateNext ==
    \/ GpuCallRefresh("gpuTask")
    \/ GpuBuild("gpuTask", {IdleReading, MemBusyReading})
    \/ GpuSwap("gpuTask")
    \/ \E req \in Requests : ApiCreateContainer(req)
    \/ ContRun("create")
    \/ ContInspect("create")
    \/ ContInsert("create")
    \/ ApiCreateRespond

SpecCreate == AllIdle /\ [][CreateNext]_vars

(***************************************************************************)
(* Agent.Start as main runs it, with every provider free to fail.  The     *)
(* identity file and one managed container may exist before.               *)
(***************************************************************************)
AgentInit ==
    /\ SupIdle(AgentConfig) /\ GpuIdle /\ ApiIdle
    /\ \E n \in {0, 1} : ContIdleOn(n)
    /\ \E file \in {NoFile, File(RegisteredID)} : AgentIdle(file)

BootNext ==
    \/ MainGoStart
    \/ AgentBootstrap
    \/ AgentRegister({7})
    \/ SaveMkdirAll
    \/ SaveWriteTmp
    \/ SaveRename
    \/ AgentBootstrapped
    \/ AgentInitMonitors
    \/ AgentMonitorsRefreshed
    \/ AgentInitContainerManager
    \/ AgentContainersRefreshed
    \/ AgentStartFRP({0, NumGPUs})
    \/ AgentFRPStarted
    \/ AgentStartAPIServer
    \/ AgentAPISleep
    \/ AgentStartBackgroundTasks
    \/ ListenerCreate
    \/ ListenerBind
    \/ MainError
    \/ GpuBuild("start", {IdleReading, MemBusyReading})
    \/ GpuSwap("start")
    \/ ContList("start")
    \/ ContClear("start")
    \/ ContLoop("start")
    \/ ContInspect("start")
    \/ ContInsert("start")
    \/ SupGenerateConfig("start")
    \/ SupLookPath("start")
    \/ SupLaunch("start")
    \/ SupProbe("start")
    \/ \E p \in Pids : ProcExit(p)

SpecBoot == AgentInit /\ [][BootNext]_vars

(***************************************************************************)
(* The identity of the node over the lives of the agent process on one     *)
(* host: each process runs bootstrap, and may end at any point, by a       *)
(* crash, a kill or its own exit, after which the next one is started.     *)
(***************************************************************************)
\* the identity file the first process may find: none, an empty or blank
\* file, an id followed by a newline
FoundFiles == {NoFile, File(<<>>), File(<<"\n">>), File(<<"4", "\n">>)}

IdentityInit ==
    /\ SupIdle(AgentConfig) /\ GpuIdle /\ ContIdle /\ ApiIdle
    /\ \E file \in FoundFiles : AgentIdle(file)

\* The process ends and a new one is started.  The files stay; a process
\* that ends inside os.WriteFile may leave a part of the bytes.
ProcessRestart ==
    /\ mainPc # "init"
    /\ idTmp' \in (IF startPc = "saveWrite" THEN PartialTmp ELSE {idTmp})
    /\ mainPc' = "init"
    /\ mainCause' = "none"
    /\ errChan' = "empty"
    /\ nodeID' = NoIdentity
    /\ regResp' = 0
    /\ startPc' = "unstarted"
    /\ startRes' = "none"
    /\ steps' = <<>>
    /\ failedStep' = "none"
    /\ UNCHANGED <<idFile, registerCalls, inited>>
    /\ UNCHANGED <<stopVars, taskVars, supVars, gpuVars, contVars, apiVars>>

IdentityNext ==
    \/ MainGoStart
    \/ AgentBootstrap
    \/ AgentRegister(PlatformIds)
    \/ SaveMkdirAll
    \/ SaveWriteTmp
    \/ SaveRename
    \/ AgentBootstrapped
    \/ ProcessRestart

SpecIdentity == IdentityInit /\ [][IdentityNext]_vars

(***************************************************************************)
(* The agent from Start to the end of Stop: the goroutines run, a signal   *)
(* arrives once Start has returned, an error of Start ends it as well.     *)
(***************************************************************************)
AgentSupCallers == {"start", "frpTask", "stop"}
AgentGpuCallers == {"start", "gpuTask"}
AgentContCallers == {"start", "contTask"}

\* the termination signal, sent once Start has returned
SignalAfterStart ==
    /\ startPc = "done"
    /\ MainSignal

ShutdownNext ==
    \/ MainGoStart
    \/ AgentBootstrap
    \/ AgentRegister({7})
    \/ SaveMkdirAll
    \/ SaveWriteTmp
    \/ SaveRename
    \/ AgentBootstrapped
    \/ AgentInitMonitors
    \/ AgentMonitorsRefreshed
    \/ AgentInitContainerManager
    \/ AgentContainersRefreshed
    \/ AgentStartFRP({NumGPUs})
    \/ AgentFRPStarted
    \/ AgentStartAPIServer
    \/ AgentAPISleep
    \/ AgentStartBackgroundTasks
    \/ ListenerCreate
    \/ ListenerBind
    \/ ListenerClosed
    \/ \E t \in Tasks : TaskSelect(t)
    \/ \E t \in Tasks : TickFire(t)
    \/ \E t \in Tasks : TaskReturn(t)
    \/ SignalAfterStart
    \/ MainError
    \/ MainShutdownDone
    \/ AgentStopCancel
    \/ AgentDrainTick
    \/ AgentDrainDone
    \/ AgentDrainTimeout
    \/ AgentStopAPI
    \/ AgentStopFRP
    \/ AgentFRPStopped
    \/ AgentClose
    \/ \E t \in AgentGpuCallers : GpuRefreshReturns(t, {IdleReading})
    \/ \E t \in AgentContCallers : ContRefreshReturns(t)
    \/ \E c \in AgentSupCallers : SupGenerateConfig(c)
    \/ \E c \in AgentSupCallers : SupLookPath(c)
    \/ \E c \in AgentSupCallers : SupLaunch(c)
    \/ \E c \in AgentSupCallers : SupProbe(c)
    \/ \E c \in AgentSupCallers : SupStopReturns(c)
    \/ \E c \in AgentSupCallers : SupRestartSleep(c)
    \/ \E p \in Pids : ProcExit(p)
    \/ \E p \in Pids : CtxKill(p)

SpecShutdown == AllIdle /\ [][ShutdownNext]_vars

(***************************************************************************)
(* Claims about the supervisor.                                            *)
(***************************************************************************)
LiveProcs == {p \in Pids : procs[p] = "live"}

\* C1: for every sequence of supervisor Start, Stop, Restart and
\* UpdateConfig calls, at most one live supervised process exists in every
\* reachable state.
C1_AtMostOneLive == Cardinality(LiveProcs) <= 1

(***************************************************************************)
(* Claims about the two caches.                                            *)
(***************************************************************************)
\* C2: a snapshot read that runs concurrently with a full refresh of the
\* same cache returns the complete set of before that refresh or the
\* complete set of after it, never an empty or partially rebuilt one; for
\* the accelerator cache and for the workload cache.
C2_ReadsSeeOneGeneration ==
    /\ gpuRead.op # "none" => gpuRead.out \in gpuRead.allowed
    /\ contRead.op # "none" => contRead.keys \in contRead.allowed

\* C3: the creation path never commits a workload onto a busy accelerator:
\* no index of the request that reaches docker run is busy in the
\* accelerator snapshot of that moment.
C3_NoCommitOnBusy ==
    commit.done => \A k \in 1 .. Len(commit.gpuIDs) : commit.gpuIDs[k] \notin commit.busy

\* the refreshes that return in this step with an error
GpuFailing(t) == gpuPc[t] # "idle" /\ gpuPc'[t] = "idle" /\ gpuRes'[t] = "err"
ContFailing(t) ==
    /\ contOp[t] = "RefreshContainers"
    /\ contPc[t] # "idle" /\ contPc'[t] = "idle" /\ contRes'[t] = "err"

\* C4: for each cache, when a full refresh returns an error the snapshot
\* after the failed refresh equals the snapshot before it: the refresh has
\* written nothing, and the cache is what it was when the refresh began.
C4_FailedRefreshKeepsSnapshot ==
    [][/\ \A t \in GpuCallers :
             GpuFailing(t) => gpus' = gpus /\ gpus = gpuOld[t] /\ ~gpuWrote'[t]
       /\ \A t \in ContCallers :
             ContFailing(t) => /\ containers' = containers
                               /\ DOMAIN containers = contOld[t]
                               /\ ~contWrote'[t]]_vars

\* both refreshes have failed over caches that held a snapshot
C4_Witness ==
    /\ gpuRes["gpuTask"] = "err" /\ gpus # <<>>
    /\ contRes["contTask"] = "err" /\ contOp["contTask"] = "RefreshContainers"
    /\ containers # EmptyMap

\* the indices of the snapshot that are not busy
IdleGPUs(snapshot) == {snapshot[k].ID : k \in {j \in DOMAIN snapshot : ~snapshot[j].Busy}}

\* C5: the list GetAvailableGPUs returns holds exactly the indices whose
\* entry in the accelerator snapshot of the time of the call is not busy,
\* each once, and never an index whose entry is busy.
C5_AvailableIsExactlyIdle ==
    [][(gpuRead' # gpuRead /\ gpuRead'.op = "GetAvailableGPUs") =>
          /\ {gpuRead'.out[k] : k \in DOMAIN gpuRead'.out} = IdleGPUs(gpus)
          /\ Len(gpuRead'.out) = Cardinality(IdleGPUs(gpus))
          /\ \A k \in DOMAIN gpuRead'.out : gpuRead'.out[k] \notin BusyGPUs(gpus)]_vars

\* the query has answered over a snapshot with a busy and an idle device
C5_Witness ==
    /\ gpuRead.op = "GetAvailableGPUs"
    /\ gpuRead.snap = gpus
    /\ BusyGPUs(gpus) # {}
    /\ gpuRead.out # <<>>

(***************************************************************************)
(* Claims about the agent.                                                 *)
(***************************************************************************)
\* C6: after the shared signal is cancelled every periodic task returns
\* without beginning another action: a task that waits in its select
\* returns, and a task that is mid-action returns once that action is over.
\* No task takes a tick from its ticker once the signal is cancelled.
C6_NoActionAfterCancel ==
    [][cancelled => \A t \in Tasks : ~(tickPending[t] /\ ~tickPending'[t])]_vars

\* the steps Stop runs after the wait, given what Start had set up
StopTail ==
    (IF inited.api THEN <<"api">> ELSE <<>>)
    \o (IF inited.frp THEN <<"frp">> ELSE <<>>)
    \o (IF inited.gpu THEN <<"gpu">> ELSE <<>>)
    \o (IF inited.cont THEN <<"container">> ELSE <<>>)

\* C7: Stop cancels the shared signal first and then waits for the
\* goroutines for at most 15 seconds; when they have not ended by then it
\* prints the warning and runs the remaining steps all the same, and it
\* returns no error.
C7_StopWaitsThenProceeds ==
    /\ stopSteps # <<>> => stopSteps[1] = "cancel" /\ cancelled
    /\ stopPc \notin {"idle", "cancel"} => cancelled
    /\ drainWaited <= DrainTimeout
    /\ drainWarned => drainWaited = DrainTimeout /\ stopPc \notin {"idle", "cancel", "drain"}
    /\ stopRes \in {"none", "nil"}
    /\ stopPc = "done" =>
          /\ stopRes = "nil"
          /\ stopSteps = <<"cancel", IF drainWarned THEN "drainTimeout" ELSE "drained">>
                            \o StopTail

\* Stop has returned nil after the warning while a task is still mid-action
C7_Witness ==
    /\ stopPc = "done"
    /\ stopRes = "nil"
    /\ drainWarned
    /\ \E t \in Tasks : taskPc[t] = "action" /\ ~ActionReturned(t)

\* the steps of Agent.Stop and of the Manager.Stop it calls
StopStep ==
    \/ AgentStopCancel \/ AgentDrainTick \/ AgentDrainDone \/ AgentDrainTimeout
    \/ AgentStopAPI \/ AgentStopFRP \/ SupStopReturns("stop") \/ AgentFRPStopped
    \/ AgentClose

\* all the steps of a Stop that runs to its end
StopPlan == <<"cancel", IF drainWarned THEN "drainTimeout" ELSE "drained">> \o StopTail

\* C11: Stop always completes and never returns an error: it goes through
\* cancel, the wait for the goroutines, the listener, the supervisor, the
\* accelerator monitor and the container manager in this order; a step of
\* Stop can always be taken until Stop has returned, and an error a step
\* has printed leaves Stop at the step that follows.
C11_StopAlwaysCompletes ==
    /\ stopRes \in {"none", "nil"}
    /\ stopPc \in {"cancel", "drain", "api", "frp", "frpStop", "close"} => ENABLED StopStep
    /\ stopPc \notin {"idle", "cancel", "drain"} =>
          /\ Len(stopSteps) <= Len(StopPlan)
          /\ \A k \in 1 .. Len(stopSteps) : stopSteps[k] = StopPlan[k]
    /\ stopPc = "done" => stopRes = "nil" /\ stopSteps = StopPlan
    /\ "api" \in stopErr => stopPc \in {"frp", "frpStop"}
    /\ stopErr \cap {"frp", "cleanup"} # {} => stopPc = "close"
    /\ "gpu" \in stopErr => stopPc = "done"

\* Stop has returned nil although the removal of the configuration file and
\* the release of the accelerator monitor have failed
C11_Witness ==
    /\ stopPc = "done"
    /\ stopRes = "nil"
    /\ "gpu" \in stopErr
    /\ cfgFile # FileAbsent
    /\ stopSteps = <<"cancel", "drainTimeout", "api", "frp", "gpu", "container">>

\* C8: Start runs bootstrap, the accelerator monitor with its first
\* refresh, the container manager, the supervisor, the listener and the
\* periodic tasks in this order; when a step fails Start returns the error
\* and no later step runs: no supervised process, listener or task is started.
C8_StartOrderAndAbort ==
    /\ Len(steps) <= Len(StartOrder)
    /\ \A k \in 1 .. Len(steps) : steps[k] = StartOrder[k]
    /\ startRes = "nil" => steps = StartOrder
    /\ startRes = "err" =>
          /\ steps # <<>>
          /\ steps[Len(steps)] = failedStep
          /\ startPc = "done"
          /\ \A g \in Goroutines : taskPc[g] = "unstarted"
          /\ LiveProcs = {}
          /\ ~inited.api

\* the supervisor's Start has failed and Start has returned its error
C8_Witness ==
    /\ startRes = "err"
    /\ failedStep = "frp"
    /\ steps = <<"bootstrap", "monitors", "container", "frp">>
    /\ inited.frp

\* C9: when the workload provider is unavailable at initialisation, because
\* it cannot be reached or because the first RefreshContainers fails, Start
\* does not abort: it never returns the error of the container step.
C9_ProviderDownIsNotFatal == ~(startRes = "err" /\ failedStep = "container")

\* C10: a failure of the listener to start is surfaced to the caller of the
\* agent through the error channel: once the listener goroutine has ended
\* on a failed bind, the error is on errChan or main has received it.
C10_ListenerFailureSurfaced ==
    (apiBindFailed /\ taskPc["api"] = "done") =>
        (errChan = "err" \/ mainCause = "error")

\* C12: a Stop of the supervisor that finds the process already stopped,
\* because none was started or because the one it holds has exited and was
\* waited for, returns nil and changes nothing.
C12_StopOnStoppedIsNoOp ==
    [][\A c \in SupCallers :
          (/\ supOp[c] = "Stop"
           /\ supPc[c] # "idle"
           /\ supPc'[c] = "idle"
           /\ ~HasProcess \/ sigtermFailed[c])
          => /\ supRes'[c] = "nil"
             /\ UNCHANGED <<procs, termed, killed, mcmd, mconfig, cfgFile, cfgFrom>>]_vars

\* C13: a supervised process is sent the forceful kill only after it was
\* sent the graceful termination signal: in every execution, the shutdown
\* of the agent included, every process that was sent SIGKILL had been sent
\* SIGTERM before.
C13_GracefulBeforeKill == killed \subseteq termed

\* C14: whenever Stop has returned nil for a manager that holds a started
\* process, that process has exited and was waited for, so it is neither
\* live nor a zombie; after the forceful kill Stop can return only once the
\* wait for the exit has completed.
C14_StopSuccessMeansReaped ==
    \A c \in SupCallers :
        /\ (supOp[c] = "Stop" /\ supPc[c] = "idle" /\ supRes[c] = "nil" /\ HasProcess)
              => procs[mcmd] = "reaped"
        /\ (supPc[c] = "stop_killed" /\ ENABLED SupStopKilled(c))
              => procs[stopTarget[c]] = "reaped"

\* Stop has returned nil on the timeout path: the process ignored SIGTERM,
\* was killed after the ten seconds and was waited for
C14_Witness ==
    /\ supOp["client"] = "Stop"
    /\ supPc["client"] = "idle"
    /\ supRes["client"] = "nil"
    /\ HasProcess
    /\ mcmd \in termed \cap killed
    /\ stopWaited["client"] >= StopTimeout
    /\ procs[mcmd] = "reaped"

StopPcs == {"stop_check", "stop_wait", "stop_killed"}
StartPcs == {"start_gen", "start_look", "start_launch", "start_probe"}

\* C15: Restart runs Stop, then the settle delay, then Start, in this
\* order: it begins with Stop, whatever Stop returns leads to the delay and
\* never ends the call, the delay leads to Start, and the call returns only
\* from a step of Start, with the result of that Start.
C15_RestartIsStopDelayStart ==
    [][\A c \in SupCallers :
          /\ (supPc[c] = "idle" /\ supPc'[c] # "idle" /\ supOp'[c] \in {"Restart", "UpdateConfig"})
                => supPc'[c] = "stop_check"
          /\ (supPc[c] # "idle" /\ supOp[c] \in {"Restart", "UpdateConfig"}) =>
                /\ supOp'[c] = supOp[c]
                /\ supRes[c] = "none"
                /\ supPc[c] \in StopPcs => supPc'[c] \in StopPcs \cup {"restart_sleep"}
                /\ supPc[c] = "restart_sleep" => supPc'[c] \in {"restart_sleep", "start_gen"}
                /\ supPc[c] \in StartPcs =>
                      /\ supPc'[c] \in StartPcs \cup {"idle"}
                      /\ supPc'[c] = "idle" <=> supRes'[c] \in {"nil", "err"}]_vars

\* a Restart has returned nil: its Stop returned the error of Wait for the
\* old process, and its Start launched a new process
C15_Witness ==
    /\ supOp["client"] = "Restart"
    /\ supPc["client"] = "idle"
    /\ supRes["client"] = "nil"
    /\ doneCh["client"] = "err"
    /\ stopTarget["client"] \in Pids
    /\ HasProcess
    /\ mcmd # stopTarget["client"]
    /\ procs[mcmd] = "live"

\* the health-check task takes a tick of its ticker in this step
HealthTick ==
    \/ tickPending["frpTask"] /\ ~tickPending'["frpTask"]
    \/ taskPc["frpTask"] = "blocked" /\ taskPc'["frpTask"] = "action"

\* C16: on every tick at which the health-check task finds IsRunning false
\* it makes exactly one Restart call, and it makes none otherwise; when the
\* Restart has failed the task does not end (it ends only on the cancelled
\* context) and is back at its select, and IsRunning is false again and
\* stays false until the next tick, which retries.
C16_OneRestartPerDeadTick ==
    [][/\ HealthTick =>
             IF IsRunning
             THEN supPc'["frpTask"] = "idle"
             ELSE supPc'["frpTask"] = "stop_check" /\ supOp'["frpTask"] = "Restart"
       /\ (supPc["frpTask"] = "idle" /\ supPc'["frpTask"] # "idle")
             => (HealthTick /\ ~IsRunning)
       /\ (supPc["frpTask"] # "idle" /\ supPc'["frpTask"] = "idle" /\ supRes'["frpTask"] = "err")
             => /\ ~IsRunning'
                /\ taskPc'["frpTask"] = "action"
       /\ (taskPc["frpTask"] # "done" /\ taskPc'["frpTask"] = "done") => cancelled
       /\ (taskPc["frpTask"] = "action" /\ supPc["frpTask"] = "idle"
             /\ ~IsRunning /\ ~HealthTick) => ~IsRunning']_vars

\* the task retries: it is in a Restart again after the Restart of an
\* earlier tick had failed at the launch of the process
C16_Witness ==
    /\ taskPc["frpTask"] = "action"
    /\ supOp["frpTask"] = "Restart"
    /\ supPc["frpTask"] = "stop_check"
    /\ mcmd = NoProcess

(***************************************************************************)
(* Claims about the node identity.                                         *)
(***************************************************************************)
\* C17: bootstrap calls register only when no identity is on file; once a
\* bootstrap has registered and saved, the file holds the identity the
\* agent runs with, and from then on no process changes the file or calls
\* register: every later Start ends bootstrap with the identity loaded
\* from the file.
C17_RegisterOnlyWithoutIdentity ==
    [][/\ registerCalls' # registerCalls =>
             /\ LoadNodeID(idFile) = NoIdentity
             /\ registerCalls' = registerCalls + 1
       /\ LoadNodeID(idFile) # NoIdentity =>
             /\ idFile' = idFile
             /\ registerCalls' = registerCalls
       /\ (startPc # "monitors" /\ startPc' = "monitors") =>
             /\ nodeID' # NoIdentity
             /\ nodeID' = LoadNodeID(idFile')
             /\ regResp' # 0 => nodeID' = FormatInt(regResp')]_vars

\* a later process has loaded the identity an earlier one registered and
\* saved: it made no register call of its own
C17_Witness ==
    /\ startPc = "monitors"
    /\ regResp = 0
    /\ registerCalls = 1
    /\ nodeID = FormatInt(12)
    /\ idFile = File(FormatInt(12))

\* C18: the identity file is replaced by the rename of a temporary file
\* that was written in full.  Every step, the end of the process between
\* or inside any two steps of SaveNodeID included, leaves the identity file
\* as it was or holding the complete new identifier: it is never missing
\* after having existed, and never holds a part of the identifier.
C18_IdentityFileIsAtomic ==
    [][/\ idFile' # idFile =>
             /\ startPc = "saveRename"
             /\ regResp \in PlatformIds
             /\ idFile' = File(FormatInt(regResp))
       /\ idFile' \in FoundFiles \cup {File(FormatInt(n)) : n \in PlatformIds}]_vars

\* a process has ended inside the write of the temporary file: a part of
\* the new identifier is in the temporary file, the blank identity file the
\* process had found is as it was
C18_Witness ==
    /\ mainPc = "init"
    /\ registerCalls = 1
    /\ idTmp = File(<<"1">>)
    /\ idFile = File(<<"\n">>)

(***************************************************************************)
(* Claims about the rendered configuration.                                *)
(***************************************************************************)
\* the inputs the configuration is said to be a function of
IdentityPortCount(config) == <<config.NodeID, config.AgentApiPort, Len(config.Gpus)>>

\* GenerateConfig writes the file again in this step, over a complete file
Rerendered ==
    /\ cfgFile.state = "written"
    /\ \E c \in SupCallers : supPc[c] = "start_gen" /\ supPc'[c] = "start_look"

TunnelsOf(file, type) ==
    SelectSeq(file.sections,
              LAMBDA sec : sec.name[1] # "common" /\ sec.tunnelType = type)

\* the local ports of all tunnel sections of a rendered file, in order
LocalPorts(file) ==
    LET tunnels == SelectSeq(file.sections, LAMBDA sec : sec.name[1] # "common")
    IN  [k \in 1 .. Len(tunnels) |-> tunnels[k].localPort]

\* C20: for every accelerator count n the rendered configuration has one
\* control tunnel and 2n data tunnels, and the local ports of these 1 + 2n
\* tunnels are pairwise distinct.
C20_TunnelCountAndDistinctPorts ==
    cfgFile.state = "written" =>
        LET n == Len(cfgFrom.Gpus)
            ports == LocalPorts(cfgFile)
        IN  /\ Len(TunnelsOf(cfgFile, "agent-control")) = 1
            /\ Len(TunnelsOf(cfgFile, "container-data")) = 2 * n
            /\ Len(ports) = 1 + 2 * n
            /\ \A i, j \in 1 .. Len(ports) : i # j => ports[i] # ports[j]

(***************************************************************************)
(* The agent as main drives it: the termination signal may arrive at any   *)
(* moment after main has launched Start, also while Start is still inside  *)
(* one of its steps, and main then launches Stop next to it.  The signal   *)
(* comes before the first tick of the tasks, whose tickers fire ten and    *)
(* thirty seconds after Start has launched them.                           *)
(***************************************************************************)
InterruptNext ==
    \/ MainGoStart
    \/ AgentBootstrap
    \/ AgentRegister({7})
    \/ SaveMkdirAll
    \/ SaveWriteTmp
    \/ SaveRename
    \/ AgentBootstrapped
    \/ AgentInitMonitors
    \/ AgentMonitorsRefreshed
    \/ AgentInitContainerManager
    \/ AgentContainersRefreshed
    \/ AgentStartFRP({NumGPUs})
    \/ AgentFRPStarted
    \/ AgentStartAPIServer
    \/ AgentAPISleep
    \/ AgentStartBackgroundTasks
    \/ ListenerCreate
    \/ ListenerBind
    \/ ListenerClosed
    \/ \E t \in Tasks : TaskSelect(t)
    \/ \E t \in Tasks : TaskReturn(t)
    \/ MainSignal
    \/ MainError
    \/ MainShutdownDone
    \/ AgentStopCancel
    \/ AgentDrainTick
    \/ AgentDrainDone
    \/ AgentDrainTimeout
    \/ AgentStopAPI
    \/ AgentStopFRP
    \/ AgentFRPStopped
    \/ AgentClose
    \/ GpuRefreshReturns("start", {IdleReading})
    \/ ContRefreshReturns("start")
    \/ \E c \in {"start", "stop"} : SupGenerateConfig(c)
    \/ \E c \in {"start", "stop"} : SupLookPath(c)
    \/ \E c \in {"start", "stop"} : SupLaunch(c)
    \/ \E c \in {"start", "stop"} : SupProbe(c)
    \/ \E c \in {"start", "stop"} : SupStopReturns(c)
    \/ \E p \in Pids : ProcExit(p)
    \/ \E p \in Pids : CtxKill(p)

SpecInterrupt == AllIdle /\ [][InterruptNext]_vars

(***************************************************************************)
(* Claims about the callers of the supervisor.                             *)
(***************************************************************************)
\* the goroutines of the agent that are inside an entry point of the manager
InSupervisor == {c \in AgentSupCallers : supPc[c] # "idle"}

\* C21: Start, Stop, Restart and UpdateConfig of the one frp.Manager are
\* never in progress in two goroutines of the agent at once: of the
\* goroutine of Agent.Start, the frp monitor task and the goroutine of
\* Agent.Stop, at most one is inside the manager.
C21_OneCallerInSupervisor == Cardinality(InSupervisor) <= 1

(***************************************************************************)
(* The busy flag of the accelerator snapshot, over every kind of reading   *)
(* NVML gives, the one of a failed GetMemoryInfo included.                 *)
(***************************************************************************)
\* GetMemoryInfo has failed (totalMB = usedMB = 0) on a device whose
\* GetUtilizationRates reports 50 percent
NoMemoryReading == Reading(0, 0, 50)
AllReadings == Readings \cup {NoMemoryReading}

BusyNext ==
    \/ GpuCallRefresh("gpuTask")
    \/ GpuBuild("gpuTask", AllReadings)
    \/ GpuSwap("gpuTask")
    \/ GpuReadInfo

SpecBusy == AllIdle /\ [][BusyNext]_vars

\* C30: every device of the snapshot is busy exactly when its memory use
\* is above 10 percent of its total memory or its utilisation is above 10
\* percent; a utilisation above 10 percent alone makes it busy, also with a
\* total memory of 0.
C30_BusyIsMemoryOrUtilisation ==
    \A i \in 1 .. Len(gpus) :
        gpus[i].Busy <=> \/ gpus[i].MemoryUsedMB * 100 > 10 * gpus[i].MemoryTotalMB
                         \/ gpus[i].UsagePercent > 10

(***************************************************************************)
(* Claims about the health check of the supervised process.                *)
(***************************************************************************)
\* the process Start launched has exited on its own and nobody has waited
\* for it
Crashed == HasProcess /\ procs[mcmd] = "zombie" /\ mcmd \notin termed \cup killed

\* C27: a process that has exited on its own while the agent runs is seen
\* as not running by the health check and restarted: at every tick of the
\* health-check task that finds the process crashed, before the shutdown
\* has begun, the task enters Restart.
C27_CrashIsRestarted ==
    [][(HealthTick /\ Crashed /\ ~cancelled)
          => (supOp'["frpTask"] = "Restart" /\ supPc'["frpTask"] = "stop_check")]_vars

(***************************************************************************)
(* Claims about the periodic tasks.                                        *)
(***************************************************************************)
\* the result of the call the task t has made
TaskResult(t) ==
    CASE t = "gpuTask" -> gpuRes[t]
      [] t = "contTask" -> contRes[t]
      [] t = "frpTask" -> supRes[t]

\* the action of the task t has returned an error, which the task is about
\* to print
ActionFailed(t) == taskPc[t] = "action" /\ ActionReturned(t) /\ TaskResult(t) = "err"

\* C25: the error of a periodic task's action is printed and dropped.
\* Start has returned nil before any task runs and no task error reaches
\* errChan; a task ends only on the cancelled context; a task whose action
\* has failed goes on to its select, and while the context is not cancelled
\* a task waiting in its select begins its action again at the next tick.
C25_TaskErrorIsSwallowed ==
    \A t \in Tasks :
        /\ taskPc[t] # "unstarted"
              => (startRes = "nil" /\ errChan = "empty" /\ failedStep = "none")
        /\ taskPc[t] = "done" => cancelled
        /\ ActionFailed(t) => ENABLED TaskSelect(t)
        /\ (taskPc[t] = "blocked" /\ ~cancelled) => ENABLED TickFire(t)

\* the accelerator refresh of the task has just failed while the agent runs
C25_Witness == ActionFailed("gpuTask") /\ ~cancelled /\ startPc = "done"

\* the task t is inside the call of its action
InAction(t) == taskPc[t] = "action" /\ ~ActionReturned(t)

\* the call the task u is in can go on
CallCanProceed(u) ==
    CASE u = "gpuTask" -> ENABLED GpuRefreshReturns(u, {IdleReading})
      [] u = "contTask" -> ENABLED ContRefreshReturns(u)
      [] u = "frpTask" -> \/ ENABLED SupStopReturns(u)
                          \/ ENABLED SupRestartSleep(u)
                          \/ ENABLED SupGenerateConfig(u)
                          \/ ENABLED SupLookPath(u)
                          \/ ENABLED SupLaunch(u)
                          \/ ENABLED SupProbe(u)

\* C26: the periodic tasks do not hold each other up.  While one task is
\* inside its action, however long, each other task that waits in its
\* select still begins its own action at its tick (as long as the context
\* is not cancelled), and each other task that is inside its own action can
\* go on with it: no lock is held across tasks for the time of an action.
C26_TasksAreIndependent ==
    \A t \in Tasks : \A u \in Tasks \ {t} :
        InAction(t) =>
            /\ (taskPc[u] = "blocked" /\ ~cancelled) => ENABLED TickFire(u)
            /\ (taskPc[u] = "action" /\ tickPending[u] /\ ActionReturned(u))
                  => ENABLED TaskSelect(u)
            /\ InAction(u) => CallCanProceed(u)

\* the workload refresh and the accelerator refresh of the two tasks are
\* under way at the same time
C26_Witness == InAction("contTask") /\ InAction("gpuTask") /\ ~cancelled

(***************************************************************************)
(* Claims about the refreshes of the workload cache.                       *)
(***************************************************************************)
\* the ids docker ps would print now
ManagedNow == {ShortId(i) : i \in {j \in Cids : Exists(j)}}

\* the step in which the RefreshContainers of the caller t returns nil
FullRefreshSucceeds(t) ==
    /\ contOp[t] = "RefreshContainers"
    /\ contPc[t] # "idle"
    /\ contPc'[t] = "idle"
    /\ contRes'[t] = "nil"

\* C28: when a full refresh returns nil and the daemon still holds exactly
\* the managed containers its docker ps reported (nothing was created or
\* removed meanwhile), the cache holds exactly those containers: no entry
\* of a container that was not reported, and an entry for each reported one.
C28_FullRefreshMirrorsProvider ==
    [][\A t \in ContCallers :
          (FullRefreshSucceeds(t) /\ ManagedNow = contListed[t])
             => DOMAIN containers' = contListed[t]]_vars

(***************************************************************************)
(* The workload cache under single refreshes: a client refreshes one       *)
(* container at a time, by its short or its full id, while the periodic    *)
(* task rebuilds the cache and containers come, exit and go.               *)
(***************************************************************************)
RefreshOneNext ==
    \/ \E key \in Keys : ContCallRefreshContainer("create", key)
    \/ ContInspect("create")
    \/ ContInsert("create")
    \/ ContCallRefreshContainers("contTask")
    \/ ContRefreshReturns("contTask")
    \/ EnvDockerRun
    \/ \E i \in Cids : EnvDockerExit(i)
    \/ \E i \in Cids : EnvDockerRemove(i)

SpecRefreshOne == AllIdle /\ [][RefreshOneNext]_vars

\* the caller t takes a step of Manager.RefreshContainer
RefreshOneStep(t) ==
    /\ contPc[t] \in {"inspect", "insert"}
    /\ contPc'[t] # contPc[t]

\* the cache differs between the two states at most in the entry of key
SameExcept(key) ==
    /\ DOMAIN containers' \ {key} = DOMAIN containers \ {key}
    /\ \A k \in DOMAIN containers \ {key} : containers'[k] = containers[k]

\* C29: RefreshContainer for an id touches the entry of that id only: each
\* of its steps leaves every other entry of the cache as it was; the step
\* that stores the entry stores what docker inspect has answered; and a
\* call that returns an error has not written to the cache at all.
C29_RefreshOneTouchesOneEntry ==
    [][\A t \in ContCallers :
          RefreshOneStep(t) =>
             /\ SameExcept(contArg[t])
             /\ contPc[t] = "inspect" => containers' = containers
             /\ contPc[t] = "insert"
                   => (contArg[t] \in DOMAIN containers'
                         /\ containers'[contArg[t]] = contInfo[t])
             /\ (contOp[t] = "RefreshContainer" /\ contRes'[t] = "err")
                   => (containers' = containers /\ ~contWrote'[t])]_vars

\* a single refresh has stored its entry in a cache that holds another one
C29_Witness ==
    /\ contOp["create"] = "RefreshContainer"
    /\ contPc["create"] = "idle"
    /\ contRes["create"] = "nil"
    /\ contWrote["create"]
    /\ Cardinality(DOMAIN containers) >= 2

(***************************************************************************)
(* api.Server: one request at a time through the chain of gin handlers:    *)
(* corsMiddleware, authMiddleware for the routes of the group /api/v1, and *)
(* the handler of the route.                                               *)
(***************************************************************************)
\* the routes of setupRoutes, named by their handlers
V1Routes == {"createContainer", "removeContainer", "listContainers", "getContainer",
             "getMetrics"}
Routes == V1Routes \cup {"healthCheck"}

\* strings.HasPrefix and strings.TrimPrefix, on strings as sequences of
\* characters
HasPrefix(s, prefix) ==
    /\ Len(s) >= Len(prefix)
    /\ SubSeq(s, 1, Len(prefix)) = prefix
TrimPrefix(s, prefix) ==
    IF HasPrefix(s, prefix) THEN SubSeq(s, Len(prefix) + 1, Len(s)) ELSE s

\* "Bearer "
BearerPrefix == <<"B", "e", "a", "r", "e", "r", " ">>
\* Server.authToken, from AgentAPI.AuthToken of the configuration
AuthToken == <<"t", "k">>

\* the values of the Authorization header a client may send: none, the
\* configured token after "Bearer ", another token, a prefix of the token,
\* the token alone, another scheme with the token
Headers ==
    {<<>>,
     BearerPrefix \o AuthToken,
     BearerPrefix \o <<"t", "x">>,
     BearerPrefix \o <<"t">>,
     AuthToken,
     <<"B", "a", "s", "i", "c", " ">> \o AuthToken}

\* an authMiddleware that lets every header of the Bearer form pass
AuthMiddlewareAnyBearer(header) ==
    IF header = <<>> THEN 401
    ELSE IF ~HasPrefix(header, BearerPrefix) THEN 401
    ELSE 0

\* Server.authMiddleware: the status it aborts the request with, or 0 when
\* it calls c.Next()
AuthMiddleware(header) ==
    IF header = <<>> THEN 401
    ELSE IF ~HasPrefix(header, BearerPrefix) THEN 401
    ELSE IF TrimPrefix(header, BearerPrefix) # AuthToken THEN 401
    ELSE 0

Response(code) == Answer(httpReq.route, code)

\* what the steps of a request leave alone besides the caches
exceptHttp == <<supVars, agentVars, apiPc, apiResp, commit, heldVars>>

\* A request arrives and passes gin.Recovery and corsMiddleware, which
\* answers an OPTIONS request itself with 204; any other request goes on to
\* authMiddleware when its route is in the group /api/v1, and to its
\* handler otherwise.
HttpReceive(route, options, header) ==
    /\ httpPc = "idle"
    /\ IF options
       THEN /\ httpPc' = "idle"
            /\ httpReq' = NoRequest
            /\ httpResp' = Answer(route, 204)
       ELSE /\ httpPc' = IF route \in V1Routes THEN "auth" ELSE "handler"
            /\ httpReq' = [route |-> route, options |-> options, header |-> header]
            /\ UNCHANGED httpResp
    /\ UNCHANGED <<gpuVars, contVars, exceptHttp>>

\* authMiddleware
HttpAuth ==
    /\ httpPc = "auth"
    /\ IF AuthMiddleware(httpReq.header) = 0
       THEN /\ httpPc' = "handler"
            /\ UNCHANGED httpResp
       ELSE /\ httpPc' = "idle"
            /\ httpResp' = Response(AuthMiddleware(httpReq.header))
    /\ httpReq' = IF httpPc' = "idle" THEN NoRequest ELSE httpReq
    /\ UNCHANGED <<gpuVars, contVars, exceptHttp>>

\* a health check that answers from the result of the last periodic refresh
HttpHealthCheckFromCache ==
    /\ httpPc = "handler"
    /\ httpReq.route = "healthCheck"
    /\ \E probe \in {"ok", "err"} :
          httpResp' = [route |-> "healthCheck", probe |-> probe,
                       stale |-> gpuRes["gpuTask"] = "err",
                       code |-> IF gpuRes["gpuTask"] = "err" \/ gpus = <<>>
                                THEN 503 ELSE 200]
    /\ httpPc' = "idle"
    /\ httpReq' = NoRequest
    /\ UNCHANGED <<gpuVars, contVars, exceptHttp>>

\* Server.healthCheck: GetGPUCount asks the driver, which answers or not
HttpHealthCheck ==
    /\ httpPc = "handler"
    /\ httpReq.route = "healthCheck"
    /\ \E probe \in {"ok", "err"} :
          httpResp' = [route |-> "healthCheck", probe |-> probe,
                       stale |-> gpuRes["gpuTask"] = "err",
                       code |-> IF probe = "err" THEN 503 ELSE 200]
    /\ httpPc' = "idle"
    /\ httpReq' = NoRequest
    /\ UNCHANGED <<gpuVars, contVars, exceptHttp>>

\* Server.listContainers
HttpListContainers ==
    /\ httpPc = "handler"
    /\ httpReq.route = "listContainers"
    /\ httpResp' = Response(200)
    /\ httpPc' = "idle"
    /\ httpReq' = NoRequest
    /\ UNCHANGED <<gpuVars, contVars, exceptHttp>>

\* Server.getContainer for the id key of the path
HttpGetContainer(key) ==
    /\ httpPc = "handler"
    /\ httpReq.route = "getContainer"
    /\ httpResp' = Response(IF GetContainer(containers, key).exists THEN 200 ELSE 404)
    /\ httpPc' = "idle"
    /\ httpReq' = NoRequest
    /\ UNCHANGED <<gpuVars, contVars, exceptHttp>>

\* Server.getMetrics up to its call of RefreshGPUInfo
HttpGetMetrics ==
    /\ httpPc = "handler"
    /\ httpReq.route = "getMetrics"
    /\ GpuEnterRefresh("metrics")
    /\ httpPc' = "metrics"
    /\ UNCHANGED <<httpReq, httpResp>>
    /\ UNCHANGED <<contVars, exceptHttp>>

\* Server.getMetrics after RefreshGPUInfo has returned: 500 on its error,
\* otherwise GetGPUInfo and the system metrics, whose failure is ignored
HttpMetricsRespond ==
    /\ httpPc = "metrics"
    /\ gpuPc["metrics"] = "idle"
    /\ httpResp' = Response(IF gpuRes["metrics"] = "err" THEN 500 ELSE 200)
    /\ httpPc' = "idle"
    /\ httpReq' = NoRequest
    /\ UNCHANGED <<gpuVars, contVars, exceptHttp>>

\* Server.createContainer up to its call of CreateContainer
HttpCreateContainer(req) ==
    /\ httpPc = "handler"
    /\ httpReq.route = "createContainer"
    /\ CreateContainerBegins(req)
    /\ IF apiPc' = "create"
       THEN /\ httpPc' = "create"
            /\ UNCHANGED httpResp
       ELSE /\ httpPc' = "idle"
            /\ httpResp' = Response(apiResp')
    /\ httpReq' = IF httpPc' = "idle" THEN NoRequest ELSE httpReq
    /\ UNCHANGED heldVars

\* Server.createContainer after CreateContainer has returned
HttpCreateRespond ==
    /\ httpPc = "create"
    /\ CreateContainerResponds
    /\ httpResp' = Response(apiResp')
    /\ httpPc' = "idle"
    /\ httpReq' = NoRequest
    /\ UNCHANGED heldVars

\* Server.removeContainer for the id key of the path, with the whole of
\* Manager.RemoveContainer: docker stop, whose failure is only printed,
\* docker rm -f -v, and on its success delete(m.containers, containerID).
\* docker rm fails when the daemon does not answer or knows no such
\* container.
HttpRemoveContainer(key) ==
    /\ httpPc = "handler"
    /\ httpReq.route = "removeContainer"
    /\ \/ /\ httpResp' = Response(500)
          /\ \/ UNCHANGED docker
             \/ /\ docker[CidOf(key)].status = "running"
                /\ docker' = [docker EXCEPT ![CidOf(key)].status = "exited"]
          /\ UNCHANGED containers
       \/ /\ Exists(CidOf(key))
          /\ docker' = [docker EXCEPT ![CidOf(key)].status = "removed"]
          /\ containers' = Delete(containers, key)
          /\ httpResp' = Response(204)
    /\ httpPc' = "idle"
    /\ httpReq' = NoRequest
    /\ UNCHANGED <<contPc, contOp, contRes, contTodo, contArg, contInfo, contOld,
                   contListed, contWrote, contRead, contReq>>
    /\ UNCHANGED <<gpuVars, exceptHttp>>

(***************************************************************************)
(* The server under requests of every kind, with and without a valid       *)
(* Authorization header.                                                   *)
(***************************************************************************)
\* the body sent to POST /api/v1/containers
AuthRequests == {[GPUIDs |-> <<>>, GPUCount |-> 0]}

AuthNext ==
    \/ \E route \in Routes, options \in BOOLEAN, header \in Headers :
          HttpReceive(route, options, header)
    \/ HttpAuth
    \/ HttpHealthCheck
    \/ HttpListContainers
    \/ \E key \in Keys : HttpGetContainer(key)
    \/ HttpGetMetrics
    \/ GpuBuild("metrics", {IdleReading})
    \/ GpuSwap("metrics")
    \/ HttpMetricsRespond
    \/ \E req \in AuthRequests : HttpCreateContainer(req)
    \/ ContRun("create")
    \/ ContInspect("create")
    \/ ContInsert("create")
    \/ HttpCreateRespond
    \/ \E key \in Keys : HttpRemoveContainer(key)

SpecAuth == AllIdle /\ [][AuthNext]_vars

(***************************************************************************)
(* Claims about the HTTP interface.                                        *)
(***************************************************************************)
\* the one value of the Authorization header that carries the configured
\* token in the Bearer form
ValidHeader == BearerPrefix \o AuthToken

\* a handler of the group /api/v1 is at work
InV1Handler == httpPc \notin {"idle", "auth"} /\ httpReq.route \in V1Routes

\* C23: every route of /api/v1 is behind authMiddleware.  A request to one
\* of them without Authorization header, with a header not of the form
\* "Bearer <token>" or with another token than the configured one is
\* answered 401 and nothing else happens: no handler is entered, so docker,
\* the workload cache and the accelerator cache change only while a request
\* with the valid header is in its handler.  A request to /health goes to
\* its handler whatever its header is and is never answered 401.
C23_V1RoutesNeedTheToken ==
    [][/\ (httpPc = "auth" /\ httpReq.header # ValidHeader)
             => /\ httpPc' = "idle"
                /\ httpResp' = Answer(httpReq.route, 401)
                /\ UNCHANGED <<gpuVars, contVars, apiPc, apiResp, commit>>
       /\ (httpPc = "auth" /\ httpReq.header = ValidHeader) => httpPc' = "handler"
       /\ (httpPc = "idle" /\ httpPc' # "idle" /\ httpReq'.route \in V1Routes)
             => httpPc' = "auth"
       /\ (InV1Handler => httpReq.header = ValidHeader)
       /\ (<<gpuVars, contVars, apiPc, apiResp, commit>>' #
              <<gpuVars, contVars, apiPc, apiResp, commit>>) => InV1Handler
       /\ (httpPc = "idle" /\ httpPc' # "idle" /\ httpReq'.route = "healthCheck")
             => httpPc' = "handler"
       /\ httpResp'.route = "healthCheck" => httpResp'.code # 401]_vars

\* a request to remove a workload was turned away with 401 while the cache
\* holds a workload
C23_Witness ==
    /\ httpResp = Answer("removeContainer", 401)
    /\ httpPc = "idle"
    /\ DOMAIN containers # {}

(***************************************************************************)
(* The health endpoint while the periodic task refreshes the accelerator   *)
(* cache from a driver that answers or fails from one call to the next.    *)
(***************************************************************************)
HealthNext ==
    \/ \E header \in {<<>>, ValidHeader} : HttpReceive("healthCheck", FALSE, header)
    \/ HttpHealthCheck
    \/ GpuCallRefresh("gpuTask")
    \/ GpuBuild("gpuTask", {IdleReading, MemBusyReading})
    \/ GpuSwap("gpuTask")

SpecHealth == AllIdle /\ [][HealthNext]_vars

\* C22: the health endpoint answers 503 exactly when the driver cannot be
\* reached by the GetGPUCount of the request, and 200 otherwise; what the
\* last periodic refresh has left behind, an error or an old or empty
\* snapshot, has no part in the answer.
C22_HealthFollowsTheDriver ==
    httpResp.route = "healthCheck" =>
        \/ httpResp.code = 503 /\ httpResp.probe = "err"
        \/ httpResp.code = 200 /\ httpResp.probe = "ok"

\* the endpoint has answered healthy although the last periodic refresh
\* had failed and the cache was empty
C22_Witness ==
    /\ httpResp.route = "healthCheck"
    /\ httpResp.code = 200
    /\ httpResp.stale
    /\ gpus = <<>>

(***************************************************************************)
(* A caller of the two snapshot reads that writes into what it was given.  *)
(* held is the value in the caller's hands: for GetGPUInfo the slice of    *)
(* GPUInfo, for ListContainers the ContainerInfo values, named here by the *)
(* key they were stored under.  heldShared are the keys whose GPUIDs slice *)
(* in the caller's hands has the backing array of the cache's entry: a     *)
(* ContainerInfo is copied by value, and the copy of a slice header points *)
(* to the same elements.  GPUInfo has no slice, map or pointer field.      *)
(***************************************************************************)
exceptCaches ==
    <<supVars, agentVars, apiPc, apiResp, commit, httpVars, docker, contPc,
      contOp, contRes, contTodo, contArg, contInfo, contOld, contListed,
      contWrote, contRead, contReq,
      gpuPc, gpuScratch, gpuRes, gpuOld, gpuWrote, gpuRead>>

\* the daemon starts a managed container labelled with the ids gpuIDs
EnvDockerRunOn(gpuIDs) ==
    /\ DockerRun(gpuIDs)
    /\ UNCHANGED <<containers, contPc, contOp, contRes, contTodo, contArg,
                   contInfo, contOld, contListed, contWrote, contRead, contReq>>
    /\ UNCHANGED exceptCont

\* Manager.RefreshContainers from entry to return: every entry it stores is
\* a ContainerInfo built anew, which shares nothing with values handed out
CopyRefreshContainers(t) ==
    /\ ContRefreshEnds(t)
    /\ heldShared' = IF contRes'[t] = "nil" THEN {} ELSE heldShared
    /\ UNCHANGED <<supVars, gpuVars, agentVars, apiPc, apiResp, commit, httpVars, held>>

\* Monitor.GetGPUInfo: make and copy of m.gpus
CallerGetGPUInfo ==
    /\ held' = [op |-> "GetGPUInfo", value |-> GetGPUInfo(gpus), written |-> FALSE]
    /\ heldShared' = {}
    /\ UNCHANGED <<containers, gpus>>
    /\ UNCHANGED exceptCaches

\* Manager.ListContainers: append(containers, info) for each value of the map
CallerListContainers ==
    /\ held' = [op |-> "ListContainers", value |-> containers, written |-> FALSE]
    /\ heldShared' = DOMAIN containers
    /\ UNCHANGED <<containers, gpus>>
    /\ UNCHANGED exceptCaches

\* the caller of GetGPUInfo sets the field Busy of an element it was given
CallerWriteGPU(i, busy) ==
    /\ held.op = "GetGPUInfo"
    /\ ~held.written
    /\ i \in DOMAIN held.value
    /\ held' = [held EXCEPT !.value[i].Busy = busy, !.written = TRUE]
    /\ UNCHANGED <<containers, gpus, heldShared>>
    /\ UNCHANGED exceptCaches

\* the caller of ListContainers sets GPUIDs[0] of an entry it was given;
\* the element it writes is the cache's own while the array is shared
CallerWriteGPUIDs(key, g) ==
    /\ held.op = "ListContainers"
    /\ ~held.written
    /\ key \in DOMAIN held.value
    /\ held.value[key].GPUIDs # <<>>
    /\ held' = [held EXCEPT !.value[key].GPUIDs[1] = g, !.written = TRUE]
    /\ containers' = IF key \in heldShared
                     THEN [containers EXCEPT ![key].GPUIDs[1] = g]
                     ELSE containers
    /\ UNCHANGED <<gpus, heldShared>>
    /\ UNCHANGED exceptCaches

CopyNext ==
    \/ GpuCallRefresh("gpuTask")
    \/ GpuRefreshReturns("gpuTask", {IdleReading, MemBusyReading})
    \/ \E g \in GpuIndices : EnvDockerRunOn(<<g>>)
    \/ ContCallRefreshContainers("contTask")
    \/ CopyRefreshContainers("contTask")
    \/ CallerGetGPUInfo
    \/ CallerListContainers
    \/ \E i \in 1 .. NumGPUs, busy \in BOOLEAN : CallerWriteGPU(i, busy)
    \/ \E key \in Keys, g \in GpuIndices : CallerWriteGPUIDs(key, g)

SpecCopy == AllIdle /\ [][CopyNext]_vars

\* C24: a caller that writes into a value GetGPUInfo or ListContainers gave
\* it (an element of the accelerator list, the accelerator-index list of a
\* workload entry) leaves both caches as they were.
C24_CallerWritesLeaveTheCaches ==
    [][(~held.written /\ held'.written) => (containers' = containers /\ gpus' = gpus)]_vars

(***************************************************************************)
(* Claims about UpdateConfig.                                              *)
(***************************************************************************)
\* the process Manager.cmd refers to is running
TrackedLive == HasProcess /\ procs[mcmd] = "live"

\* C31: UpdateConfig never reconfigures a live process.  Its entry stores
\* the new configuration and touches neither the file nor a process; the
\* call then goes through Stop; the configuration file is written, and a
\* process launched, only while the process the manager refers to is not
\* running, and the process is launched with a file rendered from the
\* configuration that was stored.
C31_UpdateConfigStopsBeforeRender ==
    [][\A c \in SupCallers :
          /\ (supPc[c] = "idle" /\ supPc'[c] # "idle" /\ supOp'[c] = "UpdateConfig") =>
                /\ supPc'[c] = "stop_check"
                /\ cfgFile' = cfgFile /\ cfgFrom' = cfgFrom
                /\ procs' = procs /\ mcmd' = mcmd
          /\ (supPc[c] # "idle" /\ supOp[c] = "UpdateConfig") =>
                /\ mconfig' = mconfig
                /\ (cfgFile' # cfgFile \/ cfgFrom' # cfgFrom) => ~TrackedLive
                /\ mcmd' # mcmd =>
                      /\ ~TrackedLive
                      /\ cfgFrom = mconfig
                      /\ cfgFile = FileWritten(RenderConfig(mconfig))]_vars

\* an UpdateConfig with a configuration other than the one the running
\* process was started with has returned nil: the old process was sent
\* SIGTERM and reaped, and a new one runs on the new file
C31_Witness ==
    /\ supOp["client"] = "UpdateConfig"
    /\ supPc["client"] = "idle"
    /\ supRes["client"] = "nil"
    /\ stopTarget["client"] \in Pids
    /\ stopTarget["client"] \in termed
    /\ procs[stopTarget["client"]] = "reaped"
    /\ TrackedLive
    /\ mcmd # stopTarget["client"]
    /\ cfgFrom = mconfig
    /\ cfgFile = FileWritten(RenderConfig(mconfig))

(***************************************************************************)
(* Claims about Agent.Stop and the goroutines it waits for.                *)
(***************************************************************************)
\* C32: when the three periodic tasks have finished, the wait of Stop for
\* the goroutines can end: case <-done is ready, so the wait need not run
\* into the fifteen seconds of its timeout and the warning.
C32_DrainEndsWithTheTasks ==
    (stopPc = "drain" /\ \A t \in Tasks : taskPc[t] = "done") => ENABLED AgentDrainDone

\* the goroutines Start has launched that have not ended
RunningGoroutines == {g \in Goroutines : taskPc[g] \notin {"unstarted", "done"}}

\* C33: when Stop was called on a signal while Start was in progress, then
\* once Start and Stop have both returned nothing is left running: the
\* listener does not serve, no periodic task runs, no frpc process lives.
C33_NothingRunsAfterStartAndStop ==
    (mainCause = "signal" /\ startPc = "done" /\ stopPc = "done") =>
        /\ RunningGoroutines = {}
        /\ LiveProcs = {}

\* Start and Stop have both returned nil and the listener serves, with no
\* Shutdown ever called on it
ListenerOutlivesStop ==
    /\ mainCause = "signal" /\ startPc = "done" /\ stopPc = "done"
    /\ startRes = "nil" /\ stopRes = "nil"
    /\ taskPc["api"] = "serving"
    /\ ~apiShutdown
    /\ \A t \in Tasks : taskPc[t] = "done"

\* C34: once the shared context is cancelled no frpc process is launched
\* any more: a Start, alone or inside a Restart, that reaches its launch
\* with the context cancelled returns an error and leaves no process in
\* Manager.cmd, and when Stop of the agent has returned no process that
\* was running at the cancellation is alive.
C34_NoLaunchAfterCancel ==
    [][/\ cancelled => \A p \in Pids : procs[p] = "unborn" => procs'[p] = "unborn"
       /\ \A c \in AgentSupCallers :
             (cancelled /\ supPc[c] = "start_launch" /\ supPc'[c] # "start_launch") =>
                 /\ supPc'[c] = "idle"
                 /\ supRes'[c] = "err"
                 /\ mcmd' = NoProcess
       /\ stopPc' = "done" => LiveProcs' = {}]_vars

\* the health check has taken a tick that raced with the cancellation, its
\* Restart has failed at the launch, and Stop has returned with the process
\* that ran at the cancellation killed and none alive
C34_Witness ==
    /\ cancelled
    /\ stopPc = "done"
    /\ supOp["frpTask"] = "Restart"
    /\ supPc["frpTask"] = "idle"
    /\ supRes["frpTask"] = "err"
    /\ mcmd = NoProcess
    /\ killed # {}
    /\ LiveProcs = {}

(***************************************************************************)
(* Container creation through the API next to the periodic full refresh    *)
(* of the workload cache, step by step.  Nothing but CreateContainer       *)
(* starts a container here and none is removed, so that the daemon reports *)
(* every container that was created, and a key made of a full id is an     *)
(* entry CreateContainer has stored in the step in which it returned nil.  *)
(***************************************************************************)
CreateRaceNext ==
    \/ ApiCreateContainer(NoReq)
    \/ ContRun("create")
    \/ ContInspect("create")
    \/ ContInsert("create")
    \/ ApiCreateRespond
    \/ ContCallRefreshContainers("contTask")
    \/ ContList("contTask")
    \/ ContClear("contTask")
    \/ ContLoop("contTask")
    \/ ContInspect("contTask")
    \/ ContInsert("contTask")

SpecCreateRace == AllIdle /\ [][CreateRaceNext]_vars

\* the cache holds an entry for the container i, under whichever id
Cached(map, i) == \E k \in DOMAIN map : CidOf(k) = i

\* the full refresh of t is past its docker ps, and the container i was
\* not in the list: the list was made before i was created
ListedBefore(t, i) ==
    /\ contOp[t] = "RefreshContainers"
    /\ contPc[t] \notin {"idle", "list"}
    /\ ShortId(i) \notin contListed[t]

\* C35: the entry CreateContainer has stored for the id it returned stays
\* in the cache while the daemon reports the container, also in the steps
\* of a full refresh whose docker ps ran before the creation.
C35_CreatedEntrySurvivesRefresh ==
    [][\A i \in Cids :
          (FullId(i) \in DOMAIN containers /\ Exists(i) /\ ListedBefore("contTask", i))
              => Cached(containers', i)]_vars

\* C39: the id CreateContainer has returned stays resolvable.  The one
\* container of the daemon is the one whose creation was answered with 201
\* and its full id; no full refresh is in progress and the cache knows the
\* container: then GetContainer with the full id finds the entry, and every
\* entry of the cache is stored under the id it carries.
C39_ReturnedIdStaysResolvable ==
    \A i \in Cids :
        (/\ apiResp = 201
         /\ {j \in Cids : Exists(j)} = {i}
         /\ contPc["contTask"] = "idle"
         /\ Cached(containers, i))
        => /\ GetContainer(containers, FullId(i)).exists
           /\ \A k \in DOMAIN containers : containers[k].ID = k

(***************************************************************************)
(* Removal of a container through the manager next to a full refresh by    *)
(* the periodic task and a refresh of one container, step by step.  Only   *)
(* RemoveContainer removes a container from the daemon here.               *)
(***************************************************************************)
RemoveRaceNext ==
    \/ EnvDockerRun
    \/ ContCallRefreshContainers("contTask")
    \/ ContList("contTask")
    \/ ContClear("contTask")
    \/ ContLoop("contTask")
    \/ ContInspect("contTask")
    \/ ContInsert("contTask")
    \/ \E i \in Cids : ContCallRefreshContainer("create", ShortId(i))
    \/ ContInspect("create")
    \/ ContInsert("create")
    \/ \E i \in Cids : ContCallRemoveContainer("remove", ShortId(i))
    \/ ContDockerStop("remove")
    \/ ContDockerRm("remove")
    \/ ContDelete("remove")

SpecRemoveRace == AllIdle /\ [][RemoveRaceNext]_vars

\* C36: once RemoveContainer has returned nil for a container and the cache
\* holds no entry for it, no entry for it comes back, whatever refresh is
\* under way; and a RemoveContainer whose docker rm fails returns the error
\* with the cache as it was.
C36_RemovedStaysRemoved ==
    [][/\ \A i \in Cids :
             (/\ docker[i].status = "removed"
              /\ contPc["remove"] = "idle"
              /\ ~Cached(containers, i))
             => ~Cached(containers', i)
       /\ (contPc["remove"] = "rm" /\ contPc'["remove"] = "idle")
             => (contRes'["remove"] = "err" /\ containers' = containers)]_vars

(***************************************************************************)
(* Two overlapping refreshes of the accelerator cache: the periodic task   *)
(* and the handler of GET /api/v1/metrics.  To tell an earlier reading of  *)
(* the driver from a later one, the memory in use only grows here: what    *)
(* the driver reports is never below a value it has reported before.       *)
(***************************************************************************)
\* the used memory of every reading a refresh has taken and still holds
UsedSoFar ==
    {gpus[i].MemoryUsedMB : i \in DOMAIN gpus}
    \cup UNION {{gpuScratch[t][i].MemoryUsedMB : i \in DOMAIN gpuScratch[t]} : t \in GpuCallers}

\* what the driver may report now
RisingReadings ==
    {r \in {Reading(100, 5, 0), Reading(100, 20, 0), Reading(100, 50, 0)} :
        \A u \in UsedSoFar : r.used >= u}

GpuRaceNext ==
    \/ GpuCallRefresh("gpuTask")
    \/ GpuBuild("gpuTask", RisingReadings)
    \/ GpuSwap("gpuTask")
    \/ GpuCallRefresh("metrics")
    \/ GpuBuild("metrics", RisingReadings)
    \/ GpuSwap("metrics")

SpecGpuRace == AllIdle /\ [][GpuRaceNext]_vars

\* C37: the accelerator snapshot never goes back in time: no step replaces
\* the snapshot in the cache by one that was read from the driver earlier,
\* so that after two overlapping refreshes the cache holds the later read.
C37_SnapshotNeverGoesBack ==
    [][\A i \in DOMAIN gpus \cap DOMAIN gpus' :
          gpus'[i].MemoryUsedMB >= gpus[i].MemoryUsedMB]_vars

\* C38: the accelerator provider is not used after Stop has released it:
\* once Monitor.Close was called, no RefreshGPUInfo of a periodic task or
\* of Start goes on to read the driver.
C38_NoProviderCallAfterClose ==
    [][gpuClosed => \A t \in AgentGpuCallers : ~(gpuPc[t] = "build" /\ gpuPc'[t] # "build")]_vars

\* the components Start has set when it returned the error of failedStep
InitedAtAbort ==
    /\ ~inited.api
    /\ failedStep = "bootstrap" => (~inited.gpu /\ ~inited.cont /\ ~inited.frp)
    /\ failedStep = "monitors" => (~inited.cont /\ ~inited.frp)
    /\ failedStep = "container" => (inited.gpu /\ ~inited.cont /\ ~inited.frp)
    /\ failedStep = "frp" => (inited.gpu /\ inited.cont)

\* C40: Stop after a Start that has returned an error, at whichever step:
\* Stop returns nil; after the cancel and the wait it runs the steps of
\* exactly the components Start had set, in its order, and none for the
\* others; the accelerator monitor is closed if and only if it was set, no
\* Shutdown is called on a listener that was never created, no goroutine
\* was launched and no frpc process is alive.
C40_StopAfterAbortedStart ==
    (startRes = "err" /\ stopPc = "done") =>
        /\ stopRes = "nil"
        /\ mainCause \in {"error", "signal"}
        /\ failedStep \in {"bootstrap", "monitors", "container", "frp"}
        /\ InitedAtAbort
        /\ stopSteps = StopPlan
        /\ gpuClosed = inited.gpu
        /\ ~apiShutdown
        /\ RunningGoroutines = {}
        /\ LiveProcs = {}

\* Start has failed in initializeContainerManager and Stop has returned
\* nil: it has closed the accelerator monitor and has skipped the listener,
\* the supervisor and the container manager
C40_Witness ==
    /\ mainCause = "error"
    /\ stopPc = "done"
    /\ stopRes = "nil"
    /\ failedStep = "container"
    /\ gpuClosed
    /\ stopSteps = <<"cancel", "drained", "gpu">>

====
